---- MODULE Spec2Model ----
(***************************************************************************)
(* A model of package pattern (template parsing, matching, substitution)   *)
(* and of package pattern/transform (template pairs, reversibility).       *)
(*                                                                         *)
(* Strings are sequences of one-character strings; byte offsets are        *)
(* 0-based as in the Go code, sequence indexes are 1-based.  A nil slice,  *)
(* a nil Binds and an empty string are the empty sequence.                 *)
(***************************************************************************)
EXTENDS Integers, Sequences, FiniteSets, TLC

VARIABLES
  pc,    \* what the run has done so far
  p,     \* the pattern built by Parse (the left pattern of a transform)
  q,     \* the pattern built by Derive (the right pattern of a transform)
  t,     \* the transform: which of p and q is its lhs and which its rhs
  res,   \* the result of the latest call
  prev,  \* the result of the call before it
  call,  \* the template arguments of the latest Parse, Derive or New
  run,   \* the Search or ApplyFunc in progress: its callbacks so far
  th     \* the goroutines sharing p: each one's position inside its call

vars == <<pc, p, q, t, res, prev, call, run, th>>

----------------------------------------------------------------------------
(* Generic sequence helpers.                                               *)

RECURSIVE Flatten(_)
Flatten(ss) ==
  IF Len(ss) = 0 THEN <<>> ELSE Head(ss) \o Flatten(Tail(ss))

RECURSIVE SeqsUpTo(_, _)
SeqsUpTo(S, n) ==
  IF n = 0 THEN {<<>>}
  ELSE LET shorter == SeqsUpTo(S, n - 1)
       IN  shorter \cup {Append(w, x) : w \in {u \in shorter : Len(u) = n - 1}, x \in S}

Range(f) == {f[k] : k \in DOMAIN f}

Slice(s, a, b) == SubSeq(s, a + 1, b)

----------------------------------------------------------------------------
(* Errors are values; "nil" is the absence of an error.                    *)

ErrNil == "nil"
ErrNoMatch == "string does not match pattern"
ErrStopSearch == "stopped searching"
ErrNotReversible == "transformation is not reversible"
ErrParse == "ParseError"
ErrNoBinding == "no binding for"
ErrInvalidExpr == "invalid expression for"
ErrCompile == "regexp compile error"
ErrMissingBinding == "missing binding for"
ErrUnknownWord == "unknown pattern word"

Bind(name, expr) == [Name |-> name, Expr |-> expr]

BindNames(binds) == [k \in 1..Len(binds) |-> binds[k].Name]

----------------------------------------------------------------------------
(* Template grammar.                                                       *)

Letters == {"a", "b", "c", "x", "y", "z"}
Digits == {"0", "1"}
WordPunct == {"_", "-", "+", "/", ":", "=", "#"}

isWordRuneAny(c) == TRUE

isWordRune(c) == c \in WordPunct \/ c \in Digits \/ c \in Letters

perrorfZero(pos, msg) ==
  [err |-> ErrParse, pos |-> 0, msg |-> msg, lit |-> <<>>, pat |-> <<>>]

perrorf(pos, msg) ==
  [err |-> ErrParse, pos |-> pos, msg |-> msg, lit |-> <<>>, pat |-> <<>>]

(* buf.WriteRune(c)                                                        *)
writeRuneTwice(buf, c) == buf \o <<c, c>>

writeRune(buf, c) == Append(buf, c)

RECURSIVE parseLoop(_, _, _, _, _, _, _)
parseLoop(s, i, st, start, buf, lit, pat) ==
  IF i > Len(s) THEN
    LET lit2 == IF Len(buf) > 0 THEN Append(lit, buf) ELSE lit
    IN  CASE st = "dollar" -> perrorf(start, "incomplete $ escape")
          [] st = "word" -> perrorf(start, "incomplete pattern word")
          [] OTHER -> [err |-> ErrNil, pos |-> 0, msg |-> "", lit |-> lit2, pat |-> pat]
  ELSE
    LET c == s[i]
    IN  CASE st = "free" ->
               IF c = "$" THEN parseLoop(s, i + 1, "dollar", i - 1, buf, lit, pat)
               ELSE parseLoop(s, i + 1, "free", start, writeRune(buf, c), lit, pat)
          [] st = "dollar" ->
               IF c = "$" THEN parseLoop(s, i + 1, "free", start, writeRune(buf, c), lit, pat)
               ELSE IF c = "{" THEN parseLoop(s, i + 1, "word", start, <<>>, Append(lit, buf), pat)
               ELSE perrorf(i - 1, "wanted $ or { but found")
          [] OTHER ->
               IF c = "}" THEN
                 IF Len(buf) = 0 THEN perrorf(start, "empty pattern word")
                 ELSE parseLoop(s, i + 1, "free", start, <<>>, lit, Append(pat, buf))
               ELSE IF ~isWordRune(c) THEN perrorf(i - 1, "invalid name letter")
               ELSE parseLoop(s, i + 1, "word", start, writeRune(buf, c), lit, pat)

parse(s) == parseLoop(s, 1, "free", 0, <<>>, <<>>, <<>>)

----------------------------------------------------------------------------
(* Patterns.  parts: even Go indexes (odd here) are literals, the others   *)
(* are names of pattern words.  re is the cache of compileRegexp.          *)

NoRe == <<"nil">>
NoP == [template |-> <<>>, parts |-> <<>>, rules |-> <<>>, re |-> NoRe]

NameIdx(parts) == {k \in 1..Len(parts) : k % 2 = 0}
PartNames(parts) == {parts[k] : k \in NameIdx(parts)}

InterleaveNamesOnly(lit, pat) == pat

Interleave(lit, pat) ==
  Flatten([k \in 1..Len(lit) |->
             IF k <= Len(pat) THEN <<lit[k], pat[k]>> ELSE <<lit[k]>>])

RECURSIVE mergeLoop(_, _, _)
mergeLoop(rules, binds, k) ==
  IF k > Len(binds) THEN rules
  ELSE IF binds[k].Name \in DOMAIN rules
       THEN mergeLoop([rules EXCEPT ![binds[k].Name] = binds[k].Expr], binds, k + 1)
       ELSE mergeLoop(rules, binds, k + 1)

mergeBindsAdding(old, binds) ==
  [n \in DOMAIN old \cup {binds[k].Name : k \in 1..Len(binds)} |->
     IF \E k \in 1..Len(binds) : binds[k].Name = n
     THEN binds[CHOOSE k \in 1..Len(binds) : binds[k].Name = n].Expr
     ELSE old[n]]

mergeBindsFirst(old, binds) ==
  [n \in DOMAIN old |->
     IF \E k \in 1..Len(binds) : binds[k].Name = n
     THEN binds[CHOOSE k \in 1..Len(binds) :
                  binds[k].Name = n /\ \A j \in 1..(k - 1) : binds[j].Name # n].Expr
     ELSE old[n]]

mergeBinds(old, binds) == mergeLoop(old, binds, 1)

parsedValidating(s, binds, r) ==
  IF r.err # ErrNil THEN [err |-> r.err, pos |-> r.pos, p |-> NoP]
  ELSE IF \E k \in 1..Len(binds) : binds[k].Expr = <<"(">>
       THEN [err |-> ErrParse, pos |-> 0, p |-> NoP]
       ELSE [err |-> ErrNil, pos |-> 0,
             p |-> [template |-> s, parts |-> Interleave(r.lit, r.pat),
                    rules |-> mergeBinds([n \in Range(r.pat) |-> <<>>], binds),
                    re |-> NoRe]]

parsed(s, binds, r) ==
  IF r.err # ErrNil THEN [err |-> r.err, pos |-> r.pos, p |-> NoP]
  ELSE [err |-> ErrNil, pos |-> 0,
        p |-> [template |-> s, parts |-> Interleave(r.lit, r.pat),
               rules |-> mergeBinds([n \in Range(r.pat) |-> <<>>], binds),
               re |-> NoRe]]

Parse(s, binds) == parsed(s, binds, parse(s))

PBinds(pp) ==
  [k \in 1..(Len(pp.parts) \div 2) |-> Bind(pp.parts[2 * k], pp.rules[pp.parts[2 * k]])]

----------------------------------------------------------------------------
(* Substitution.                                                           *)

All(bs, key) ==
  LET hit == SelectSeq(bs, LAMBDA b : b.Name = key)
  IN  [k \in 1..Len(hit) |-> hit[k].Expr]

Has(bs, key) == \E k \in 1..Len(bs) : bs[k].Name = key

applySub(binds) == [n \in Range(BindNames(binds)) |-> All(binds, n)]

applyAdvanceStuck(s) == s

applyAdvanceDrain(s) == Tail(s)

applyAdvance(s) == IF Len(s) > 1 THEN Tail(s) ELSE s

applyLookup(sub, part) == IF part \in DOMAIN sub THEN sub[part] ELSE <<>>

RECURSIVE applyLoop(_, _, _, _)
applyWord(parts, i, sub, out, s) ==
  IF Len(s) = 0 THEN [err |-> ErrMissingBinding, out |-> <<>>, name |-> parts[i]]
  ELSE applyLoop(parts, i + 1, (parts[i] :> applyAdvance(s)) @@ sub, out \o s[1])

applyLoop(parts, i, sub, out) ==
  IF i > Len(parts) THEN [err |-> ErrNil, out |-> out, name |-> <<>>]
  ELSE IF i % 2 = 1 THEN applyLoop(parts, i + 1, sub, out \o parts[i])
  ELSE applyWord(parts, i, sub, out, applyLookup(sub, parts[i]))

Apply(pp, binds) == applyLoop(pp.parts, 1, applySub(binds), <<>>)

----------------------------------------------------------------------------
(* Regular expressions (packages regexp and regexp/syntax).  A parsed      *)
(* expression is a tree of tagged tuples:                                  *)
(*   <<"empty">>  <<"lit", c>>  <<"cls", S>>  <<"str", chars>>             *)
(*   <<"cat", <<r1, ..., rn>>>>  <<"alt", r1, r2>>                         *)
(*   <<"star", r>>  <<"plus", r>>  <<"quest", r>>  <<"cap", name, r>>      *)
(* A capture without a name has the name <<>>.                             *)

BadExpr == <<"bad">>

Lit(c) == <<"lit", c>>
Cat(rs) == <<"cat", rs>>
Cap(name, r) == <<"cap", name, r>>

(* syntax.Parse(rule, syntax.Perl), on the expressions the model binds.    *)
ExprEmpty == <<>>
ExprX == <<"x">>
ExprWord == <<"[", "x", "y", "]", "+">>
ExprAlt == <<"x", "|", "x", "y">>
ExprGroups == <<"(", "x", ")", "(", "y", ")", "?">>
ExprNamed == <<"(", "?", "P", "<", "b", ">", "x", ")", "y", "*">>
ExprBad == <<"(">>
ExprStar == <<"x", "*">>

syntaxParse(rule) ==
  CASE rule = ExprEmpty -> <<"empty">>
    [] rule = ExprX -> Lit("x")
    [] rule = ExprWord -> <<"plus", <<"cls", {"x", "y"}>>>>
    [] rule = ExprAlt -> <<"alt", Lit("x"), Cat(<<Lit("x"), Lit("y")>>)>>
    [] rule = ExprGroups ->
         Cat(<<Cap(<<>>, Lit("x")), <<"quest", Cap(<<>>, Lit("y"))>>>>)
    [] rule = ExprNamed ->
         Cat(<<Cap(<<"b">>, Lit("x")), <<"star", Lit("y")>>>>)
    [] rule = ExprStar -> <<"star", Lit("x")>>
    [] OTHER -> BadExpr

stripCapturesKeep(re) == re

RECURSIVE stripCaptures(_)
stripCaptures(re) ==
  CASE re[1] = "cap" -> stripCaptures(re[3])
    [] re[1] = "cat" -> Cat([k \in 1..Len(re[2]) |-> stripCaptures(re[2][k])])
    [] re[1] = "alt" -> <<"alt", stripCaptures(re[2]), stripCaptures(re[3])>>
    [] re[1] \in {"star", "plus", "quest"} -> <<re[1], stripCaptures(re[2])>>
    [] OTHER -> re

(* Names of the capture groups of re, in order of their left parenthesis   *)
(* (Regexp.SubexpNames without the leading entry of the whole match).      *)
RECURSIVE CapNames(_)
CapNames(re) ==
  CASE re[1] = "cap" -> <<re[2]>> \o CapNames(re[3])
    [] re[1] = "cat" -> Flatten([k \in 1..Len(re[2]) |-> CapNames(re[2][k])])
    [] re[1] = "alt" -> CapNames(re[2]) \o CapNames(re[3])
    [] re[1] \in {"star", "plus", "quest"} -> CapNames(re[2])
    [] OTHER -> <<>>

SubexpNames(re) == <<<<>>>> \o CapNames(re)

Unset(n) == [k \in 1..n |-> <<-1, -1>>]

RECURSIVE DedupEnds(_, _)
DedupEnds(ps, seen) ==
  IF Len(ps) = 0 THEN <<>>
  ELSE IF Head(ps).e \in seen THEN DedupEnds(Tail(ps), seen)
  ELSE <<Head(ps)>> \o DedupEnds(Tail(ps), seen \cup {Head(ps).e})

(* The ways re matches s from offset i, as <<end offset, capture spans>>,  *)
(* in the order a leftmost-first (Perl) matcher prefers them; of the ways  *)
(* that end at the same offset only the preferred one is kept.             *)
EndAt(e) == <<[e |-> e, caps |-> <<>>]>>

PadRight(ps, n) == [k \in 1..Len(ps) |-> [e |-> ps[k].e, caps |-> ps[k].caps \o Unset(n)]]

PadLeft(ps, n) == [k \in 1..Len(ps) |-> [e |-> ps[k].e, caps |-> Unset(n) \o ps[k].caps]]

Enclose(ps, i) ==
  [k \in 1..Len(ps) |-> [e |-> ps[k].e, caps |-> <<<<i, ps[k].e>>>> \o ps[k].caps]]

Prefixed(caps, ps) ==
  [k \in 1..Len(ps) |-> [e |-> ps[k].e, caps |-> caps \o ps[k].caps]]

Advancing(ps, i) == SelectSeq(ps, LAMBDA pth : pth.e > i)

RECURSIVE Paths(_, _, _)
RECURSIVE PathsCat(_, _, _)
RECURSIVE PathsThen(_, _, _)
RECURSIVE PathsIter(_, _, _, _)
RECURSIVE PathsAgain(_, _, _)

Paths(re, s, i) ==
  CASE re[1] = "empty" -> EndAt(i)
    [] re[1] = "lit" -> IF i < Len(s) /\ s[i + 1] = re[2] THEN EndAt(i + 1) ELSE <<>>
    [] re[1] = "cls" -> IF i < Len(s) /\ s[i + 1] \in re[2] THEN EndAt(i + 1) ELSE <<>>
    [] re[1] = "str" ->
         IF i + Len(re[2]) <= Len(s) /\ Slice(s, i, i + Len(re[2])) = re[2]
         THEN EndAt(i + Len(re[2])) ELSE <<>>
    [] re[1] = "cat" -> PathsCat(re[2], s, i)
    [] re[1] = "alt" ->
         DedupEnds(PadRight(Paths(re[2], s, i), Len(CapNames(re[3])))
                   \o PadLeft(Paths(re[3], s, i), Len(CapNames(re[2]))), {})
    [] re[1] = "quest" ->
         DedupEnds(Paths(re[2], s, i)
                   \o <<[e |-> i, caps |-> Unset(Len(CapNames(re[2])))]>>, {})
    [] re[1] = "star" -> PathsIter(re[2], s, i, Unset(Len(CapNames(re[2]))))
    [] re[1] = "plus" -> PathsAgain(re[2], s, Paths(re[2], s, i))
    [] re[1] = "cap" -> Enclose(Paths(re[3], s, i), i)
    [] OTHER -> <<>>

(* For each way the head matched, the ways the rest matches after it.      *)
PathsThen(rs, s, first) ==
  DedupEnds(Flatten([k \in 1..Len(first) |->
                       Prefixed(first[k].caps, PathsCat(rs, s, first[k].e))]), {})

PathsCat(rs, s, i) ==
  IF Len(rs) = 0 THEN EndAt(i)
  ELSE PathsThen(Tail(rs), s, Paths(Head(rs), s, i))

(* For each way one more iteration matched, the ways to go on from there.  *)
PathsAgain(re, s, step) ==
  DedupEnds(Flatten([k \in 1..Len(step) |-> PathsIter(re, s, step[k].e, step[k].caps)]),
            {})

PathsIter(re, s, i, last) ==
  DedupEnds(PathsAgain(re, s, Advancing(Paths(re, s, i), i))
            \o <<[e |-> i, caps |-> last]>>, {})

(* The leftmost match of re in s at or after offset pos, as the index      *)
(* vector of FindStringSubmatchIndex; <<>> is nil (no match).              *)
RECURSIVE execute(_, _, _)
executeAt(re, s, pos, ps) ==
  IF Len(ps) = 0 THEN execute(re, s, pos + 1)
  ELSE <<pos, ps[1].e>> \o Flatten(ps[1].caps)

execute(re, s, pos) ==
  IF pos > Len(s) THEN <<>> ELSE executeAt(re, s, pos, Paths(re, s, pos))

FindStringSubmatchIndex(re, s) == execute(re, s, 0)

----------------------------------------------------------------------------
(* Compiling and matching a pattern.                                       *)

AlnumUnderscore == Letters \cup Digits \cup {"_"}

isValidCaptureName(name) ==
  Len(name) > 0 /\ \A k \in 1..Len(name) : name[k] \in AlnumUnderscore

(* regexp.Compile of the assembled expression.                             *)
regexpCompile(re) ==
  LET names == CapNames(re)
  IN  IF \A k \in 1..Len(names) : Len(names[k]) = 0 \/ isValidCaptureName(names[k])
      THEN [err |-> ErrNil, re |-> re]
      ELSE [err |-> ErrCompile, re |-> NoRe]

RECURSIVE compileLoop(_, _, _)
compileLoop(pp, i, expr) ==
  IF i > Len(pp.parts) THEN regexpCompile(Cat(expr))
  ELSE IF i % 2 = 1 THEN compileLoop(pp, i + 1, Append(expr, <<"str", pp.parts[i]>>))
  ELSE IF pp.parts[i] \notin DOMAIN pp.rules THEN [err |-> ErrNoBinding, re |-> NoRe]
  ELSE LET s == syntaxParse(pp.rules[pp.parts[i]])
       IN  IF s[1] = "bad" THEN [err |-> ErrInvalidExpr, re |-> NoRe]
           ELSE compileLoop(pp, i + 1,
                            Append(expr, Cap(pp.parts[i], stripCaptures(s))))

(* The result carries the pattern with its cache as the call leaves it.    *)
compileStoreClearing(pp, r) ==
  IF r.err # ErrNil
  THEN [err |-> r.err, re |-> NoRe, p |-> [pp EXCEPT !.template = <<>>], built |-> FALSE]
  ELSE [err |-> ErrNil, re |-> r.re,
        p |-> [pp EXCEPT !.re = r.re, !.rules = [n \in DOMAIN pp.rules |-> <<>>]],
        built |-> TRUE]

(* built tells that the call compiled a regexp and stored it in p.re.      *)
compileStore(pp, r) ==
  IF r.err # ErrNil THEN [err |-> r.err, re |-> NoRe, p |-> pp, built |-> FALSE]
  ELSE [err |-> ErrNil, re |-> r.re, p |-> [pp EXCEPT !.re = r.re], built |-> TRUE]

compileRegexpAnew(pp) == compileStore(pp, compileLoop(pp, 1, <<>>))

compileRegexp(pp) ==
  IF pp.re[1] = "nil" THEN compileStore(pp, compileLoop(pp, 1, <<>>))
  ELSE [err |-> ErrNil, re |-> pp.re, p |-> pp, built |-> FALSE]

RECURSIVE bindLoop(_, _, _, _)
bindLoop(names, m, needle, i) ==
  IF i >= Len(names) THEN <<>>
  ELSE (IF Len(names[i + 1]) = 0 \/ m[2 * i + 1] < 0 THEN <<>>
        ELSE <<Bind(names[i + 1], Slice(needle, m[2 * i + 1], m[2 * i + 2]))>>)
       \o bindLoop(names, m, needle, i + 1)

Reversed(bs) == [k \in 1..Len(bs) |-> bs[Len(bs) + 1 - k]]

bindMatchesReversed(re, m, needle) == Reversed(bindLoop(SubexpNames(re), m, needle, 0))

bindMatches(re, m, needle) == bindLoop(SubexpNames(re), m, needle, 0)

matchIndex(c, m, needle) ==
  IF Len(m) = 0 \/ m[1] # 0 \/ m[2] # Len(needle)
  THEN [err |-> ErrNoMatch, binds |-> <<>>, p |-> c.p]
  ELSE [err |-> ErrNil, binds |-> bindMatches(c.re, m, needle), p |-> c.p]

matchCompiled(c, needle) ==
  IF c.err # ErrNil THEN [err |-> c.err, binds |-> <<>>, p |-> c.p]
  ELSE matchIndex(c, FindStringSubmatchIndex(c.re, needle), needle)

Match(pp, needle) == matchCompiled(compileRegexp(pp), needle)

(* Regexp.allMatches with n = -1: the index vectors of the successive      *)
(* non-overlapping matches of re in s.                                     *)
RECURSIVE allMatches(_, _, _, _)
allMatchesAt(re, s, pos, prevMatchEnd, m) ==
  IF Len(m) = 0 THEN <<>>
  ELSE (IF m[2] = pos /\ m[1] = prevMatchEnd THEN <<>> ELSE <<m>>)
       \o allMatches(re, s, IF m[2] = pos THEN pos + 1 ELSE m[2], m[2])

allMatchesLate(re, s, pos, prevMatchEnd) ==
  IF pos > Len(s) THEN <<>>
  ELSE allMatchesAt(re, s, pos, prevMatchEnd, execute(re, s, pos + 1))

allMatches(re, s, pos, prevMatchEnd) ==
  IF pos > Len(s) THEN <<>>
  ELSE allMatchesAt(re, s, pos, prevMatchEnd, execute(re, s, pos))

FindAllStringSubmatchIndex(re, s) == allMatches(re, s, 0, -1)

----------------------------------------------------------------------------
(* Deriving a pattern, and transforms (package transform).                 *)

deriveParsedAllRules(pp, s, r) ==
  IF r.err # ErrNil THEN [err |-> r.err, pos |-> r.pos, p |-> NoP]
  ELSE IF \E k \in 1..Len(r.pat) : r.pat[k] \notin DOMAIN pp.rules
       THEN [err |-> ErrUnknownWord, pos |-> 0, p |-> NoP]
       ELSE [err |-> ErrNil, pos |-> 0,
             p |-> [template |-> s, parts |-> Interleave(r.lit, r.pat),
                    rules |-> pp.rules, re |-> NoRe]]

deriveParsed(pp, s, r) ==
  IF r.err # ErrNil THEN [err |-> r.err, pos |-> r.pos, p |-> NoP]
  ELSE IF \E k \in 1..Len(r.pat) : r.pat[k] \notin DOMAIN pp.rules
       THEN [err |-> ErrUnknownWord, pos |-> 0, p |-> NoP]
       ELSE [err |-> ErrNil, pos |-> 0,
             p |-> [template |-> s, parts |-> Interleave(r.lit, r.pat),
                    rules |-> [n \in Range(r.pat) |-> pp.rules[n]], re |-> NoRe]]

Derive(pp, s) == deriveParsed(pp, s, parse(s))

PBindKeepCache(pp, binds) == [pp EXCEPT !.rules = mergeBinds(pp.rules, binds)]

(* P.Bind: a new pattern over the template and fragments of pp, with the   *)
(* bindings merged into a copy of its rules and no compiled regexp.        *)
PBind(pp, binds) ==
  [template |-> pp.template, parts |-> pp.parts,
   rules |-> mergeBinds(pp.rules, binds), re |-> NoRe]

(* A parse error of lhs is wrapped by fmt.Errorf and is no longer a        *)
(* *pattern.ParseError; an error of Derive is returned as it is.           *)
ErrWrapped == "parsing: wrapped error"

newDerived(lp, rp) ==
  IF rp.err # ErrNil THEN [err |-> rp.err, lp |-> NoP, rp |-> NoP]
  ELSE [err |-> ErrNil, lp |-> lp.p, rp |-> rp.p]

newParsed(lp, rhs) ==
  IF lp.err # ErrNil THEN [err |-> ErrWrapped, lp |-> NoP, rp |-> NoP]
  ELSE newDerived(lp, Derive(lp.p, rhs))

New(lhs, rhs, binds) == newParsed(Parse(lhs, binds), rhs)

RECURSIVE tally(_, _, _)
tally(a, k, na) ==
  IF k > Len(a) THEN na
  ELSE LET n == a[k].Name
           old == IF n \in DOMAIN na THEN na[n] ELSE 0
       IN  tally(a, k + 1, (n :> old + 1) @@ na)

reversibleFinalSkip(na) == TRUE

reversibleFinal(na) == \A n \in DOMAIN na : na[n] = 0

RECURSIVE reversibleLoop(_, _, _)
reversibleLoop(b, k, na) ==
  IF k > Len(b) THEN reversibleFinal(na)
  ELSE LET n == b[k].Name
       IN  IF n \notin DOMAIN na THEN FALSE
           ELSE IF na[n] - 1 < 0 THEN FALSE
           ELSE reversibleLoop(b, k + 1, [na EXCEPT ![n] = na[n] - 1])

reversible(a, b) == reversibleLoop(b, 1, tally(a, 1, <<>>))

newChecked(n) ==
  IF n.err # ErrNil
  THEN [n EXCEPT !.err = IF n.err = ErrParse THEN ErrParse ELSE ErrNotReversible]
  ELSE IF ~reversible(PBinds(n.lp), PBinds(n.rp))
       THEN [err |-> ErrNotReversible, lp |-> NoP, rp |-> NoP]
       ELSE n

NewReversible(lhs, rhs, binds) == newChecked(New(lhs, rhs, binds))

(* A transform names its two patterns; Reverse builds a transform over the *)
(* same two patterns.                                                      *)
NoT == [lhs |-> "", rhs |-> "", checked |-> FALSE]

ReverseLeftOnly(tt) == [tt EXCEPT !.lhs = tt.rhs]

Reverse(tt) == [tt EXCEPT !.lhs = tt.rhs, !.rhs = tt.lhs]

(* heap = [p |-> ..., q |-> ...]: the patterns a transform refers to.      *)
tapplyOut(heap, r) == [err |-> r.err, out |-> r.out, heap |-> heap]

tapplyMatched(tt, heap, ms) ==
  IF ms.err # ErrNil
  THEN [err |-> ms.err, out |-> <<>>, heap |-> [heap EXCEPT ![tt.lhs] = ms.p]]
  ELSE tapplyOut([heap EXCEPT ![tt.lhs] = ms.p],
                 Apply([heap EXCEPT ![tt.lhs] = ms.p][tt.rhs], ms.binds))

TApply(tt, heap, needle) == tapplyMatched(tt, heap, Match(heap[tt.lhs], needle))

(* Replace: Search over the left pattern with the callback of Replace,     *)
(* which appends needle[cur:start] and the rewritten match.                *)
RECURSIVE replaceLoop(_, _, _, _, _, _, _)
replaceVisit(re, rhs, needle, ms, k, cur, out, r) ==
  IF r.err # ErrNil THEN [err |-> r.err, out |-> <<>>]
  ELSE replaceLoop(re, rhs, needle, ms, k + 1, ms[k][2],
                   out \o Slice(needle, cur, ms[k][1]) \o r.out)

replaceLoop(re, rhs, needle, ms, k, cur, out) ==
  IF k > Len(ms) THEN [err |-> ErrNil, out |-> out]
  ELSE replaceVisit(re, rhs, needle, ms, k, cur, out,
                    Apply(rhs, bindMatches(re, ms[k], needle)))

replaceCompiled(tt, heap, needle, c) ==
  IF c.err # ErrNil THEN [err |-> c.err, out |-> <<>>, heap |-> heap]
  ELSE tapplyOut([heap EXCEPT ![tt.lhs] = c.p],
                 replaceLoop(c.re, [heap EXCEPT ![tt.lhs] = c.p][tt.rhs], needle,
                             FindAllStringSubmatchIndex(c.re, needle), 1, 0, <<>>))

Replace(tt, heap, needle) ==
  replaceCompiled(tt, heap, needle, compileRegexp(heap[tt.lhs]))

----------------------------------------------------------------------------
(* Bounds and input sets.                                                  *)

MaxTokens == 2        \* tokens of a template given to Parse before Match
MaxRuleBinds == 2     \* bindings given to Parse
MaxNeedle == 3        \* characters of a needle
MaxApplyTokens == 3   \* tokens of a template given to Parse before Apply
MaxVals == 3          \* bindings given to Apply
MaxTTokens == 2       \* tokens of each template of a transform
MaxTNeedle == 3       \* characters of a needle given to a transform
MaxRevLen == 3        \* bindings of each list given to reversible
MaxNewTokens == 3     \* tokens of each template given to NewReversible
MaxRaw == 6           \* characters of a template given to Parse as text
MaxDTokens == 2       \* tokens of a template given to Parse before Derive, and to Derive
MaxNTokens == 2       \* tokens of a template whose words have the names of TestParse
MaxBTokens == 2       \* tokens of a template given to Parse and Derive before Bind
MaxBNeedle == 1       \* characters of a needle given to a rebound pattern
MaxFTokens == 3       \* tokens of a template given to Parse before ApplyFunc
MaxSTokens == 2       \* tokens of a template given to Parse before Search
MaxSNeedle == 3       \* characters of a needle given to Search
MaxCallers == 2       \* goroutines that call one shared pattern

NameA == <<"a">>
NameB == <<"b">>
TokX == <<"x">>
TokA == <<"$", "{", "a", "}">>
TokB == <<"$", "{", "b", "}">>
Tokens == {TokX, TokA, TokB}

TemplatesOf(n) == {Flatten(ts) : ts \in SeqsUpTo(Tokens, n)}

Exprs == {ExprEmpty, ExprX, ExprWord, ExprAlt, ExprGroups, ExprNamed, ExprBad}
RuleBinds == SeqsUpTo({Bind(n, e) : n \in {NameA, NameB}, e \in Exprs}, MaxRuleBinds)

NeedlesOf(n) == SeqsUpTo({"x", "y"}, n)

Values == {<<>>, <<"x">>, <<"y">>, <<"x", "y">>}

(* The lists that give one value to each occurrence of a pattern word of   *)
(* pp, in template order.                                                  *)
OccVals(pp) ==
  LET n == Len(pp.parts) \div 2
  IN  {[k \in 1..n |-> Bind(pp.parts[2 * k], vs[k])] : vs \in [1..n -> Values]}

ApplyVals ==
  SeqsUpTo({Bind(n, v) : n \in {NameA, NameB}, v \in {<<"x">>, <<"y">>}}, MaxVals)

TExprs == {ExprX, ExprWord, ExprAlt}
TBinds == {<<Bind(NameA, ea), Bind(NameB, eb)>> : ea \in TExprs, eb \in TExprs}

RevBinds ==
  SeqsUpTo({Bind(n, e) : n \in {NameA, NameB}, e \in {ExprEmpty, ExprX}}, MaxRevLen)

(* Template texts over the characters the grammar tells apart: "!" is not *)
(* a character of a name.                                                  *)
RawChars == {"$", "{", "}", "a", "-", "!"}
RawTemplates == SeqsUpTo(RawChars, MaxRaw)

(* Derive: templates with the escape "$$" and a "$" that may be left      *)
(* incomplete; bindings that give the names different expressions.         *)
TokEscape == <<"$", "$">>
TokDollar == <<"$">>
DeriveTemplates ==
  {Flatten(ts) : ts \in SeqsUpTo(Tokens \cup {TokEscape, TokDollar}, MaxDTokens)}
DeriveBinds ==
  {<<>>, <<Bind(NameA, ExprX)>>, <<Bind(NameA, ExprWord), Bind(NameB, ExprX)>>}

(* Names of pattern words with the characters the parser admits: a        *)
(* punctuation character, a digit in front, an underscore.                 *)
NameDash == <<"a", "-">>
NameDigit == <<"1", "a">>
NameUnder == <<"_">>
TokOf(name) == <<"$", "{">> \o name \o <<"}">>
NameTemplates ==
  {Flatten(ts) : ts \in SeqsUpTo({TokX, TokOf(NameDash), TokOf(NameDigit),
                                   TokOf(NameUnder)}, MaxNTokens)}
NameBinds ==
  {<<Bind(NameDash, e1), Bind(NameDigit, e2), Bind(NameUnder, e3)>> :
     e1 \in {ExprX, ExprWord}, e2 \in {ExprX, ExprWord}, e3 \in {ExprX, ExprWord}}

(* Bind: lists that name a word twice, name a word the pattern may not     *)
(* have, and bind an expression that does not parse.                       *)
BindLists ==
  {<<>>, <<Bind(NameA, ExprX)>>, <<Bind(NameA, ExprBad)>>, <<Bind(NameB, ExprX)>>,
   <<Bind(NameA, ExprX), Bind(NameA, ExprBad)>>,
   <<Bind(NameA, ExprBad), Bind(NameA, ExprX)>>,
   <<Bind(NameB, ExprBad), Bind(NameA, ExprX)>>,
   <<Bind(NameA, ExprX), Bind(NameB, ExprX)>>}
BindTemplates == {Flatten(ts) : ts \in SeqsUpTo({TokA, TokB}, MaxBTokens)}

ErrCallback == "error of the callback"

(* What a BindFunc may return: a string, or an error.                      *)
ErrBinding == "binding"
FuncReturns ==
  {[err |-> ErrNil, s |-> v] : v \in {<<>>, <<"x">>, <<"y">>}}
    \cup {[err |-> ErrCallback, s |-> <<>>]}

(* Search: expressions that match the empty string are among the rules.   *)
SearchBinds ==
  {<<Bind(NameA, ea), Bind(NameB, eb)>> : ea \in {ExprEmpty, ExprStar, ExprBad},
                                          eb \in {ExprX, ExprStar}}

(* What a callback of Search may return.                                   *)
Returns == {ErrNil, ErrStopSearch, ErrCallback}

(* Templates that need not be well-formed: TokOpen opens a pattern word    *)
(* that nothing closes.                                                    *)
TokOpen == <<"$", "{">>
NewTemplates == {Flatten(ts) : ts \in SeqsUpTo(Tokens \cup {TokOpen}, MaxNewTokens)}

----------------------------------------------------------------------------
(* The state machine.  Each action is one call of the API; res is the      *)
(* result of the call and prev the result of the call before it.           *)

(* The pattern a transform names.                                          *)
Cell(c) == IF c = "p" THEN p ELSE q

NoRes ==
  [op |-> "none", needle |-> <<>>, vals |-> <<>>, err |-> ErrNil,
   out |-> <<>>, binds |-> <<>>, ok |-> FALSE]

(* call.pos is the offset of a parse error (-1 when there is none);        *)
(* call.on names the pattern a method was called on and call.built tells   *)
(* that the call compiled the regexp of that pattern.                      *)
NoCall == [s |-> <<>>, rhs |-> <<>>, pos |-> -1, on |-> "", built |-> FALSE]

(* run.calls are the arguments of the callbacks made so far and run.rets   *)
(* what each returned; run.ms are the matches a Search iterates over and   *)
(* run.k the index of the next match or fragment.                          *)
(* For ApplyFunc run.index is its map from name to occurrences so far,     *)
(* run.out the text written so far and run.word the name its error names.  *)
NoRun ==
  [ms |-> <<>>, k |-> 1, calls |-> <<>>, rets |-> <<>>, out |-> <<>>,
   index |-> <<>>, word |-> <<>>]

(* The goroutines that share p.  th.prebuilt tells that p.re was set before *)
(* the go statements, so that every goroutine's read of it is ordered      *)
(* after that write; th.written holds the goroutines that have assigned    *)
(* p.re.  Of each goroutine: pc its position inside compileRegexp and its  *)
(* caller, op the method it called, arg its needle or binding list, re the *)
(* regexp it holds in a local, out what the call returned.                 *)
Callers == 1..MaxCallers

NoOut == [err |-> ErrNil, val |-> <<>>]

Idle == [pc |-> "idle", op |-> "", arg |-> <<>>, re |-> NoRe, out |-> NoOut]

NoTh == [prebuilt |-> FALSE, written |-> {}, of |-> [c \in Callers |-> Idle]]

Init ==
  /\ pc = "init"
  /\ p = NoP
  /\ q = NoP
  /\ t = NoT
  /\ res = NoRes
  /\ prev = NoRes
  /\ call = NoCall
  /\ run = NoRun
  /\ th = NoTh

DoParse(S, B) ==
  /\ pc = "init"
  /\ \E s \in S, b \in B :
       \E r \in {Parse(s, b)} :
           /\ p' = r.p
           /\ pc' = IF r.err = ErrNil THEN "parsed" ELSE "failed"
           /\ res' = [NoRes EXCEPT !.op = "Parse", !.err = r.err]
  /\ prev' = res
  /\ UNCHANGED <<call, run>>
  /\ UNCHANGED <<q, t>>
  /\ UNCHANGED th

DoMatch ==
  /\ pc = "parsed"
  /\ \E n \in NeedlesOf(MaxNeedle) :
       \E r \in {Match(p, n)} :
           /\ p' = r.p
           /\ res' = [NoRes EXCEPT !.op = "Match", !.needle = n, !.err = r.err,
                                   !.binds = r.binds]
  /\ pc' = "matched"
  /\ prev' = res
  /\ UNCHANGED <<call, run>>
  /\ UNCHANGED <<q, t>>
  /\ UNCHANGED th

(* Apply on the bindings the latest Match returned.                        *)
DoApplyMatched ==
  /\ pc = "matched"
  /\ res.err = ErrNil
  /\ \E r \in {Apply(p, res.binds)} :
         res' = [NoRes EXCEPT !.op = "Apply", !.vals = res.binds, !.err = r.err,
                              !.out = r.out]
  /\ pc' = "reapplied"
  /\ prev' = res
  /\ UNCHANGED <<call, run>>
  /\ UNCHANGED <<p, q, t>>
  /\ UNCHANGED th

DoApply(V) ==
  /\ pc = "parsed"
  /\ \E v \in V :
       \E r \in {Apply(p, v)} :
           res' = [NoRes EXCEPT !.op = "Apply", !.vals = v, !.err = r.err,
                                !.out = r.out]
  /\ pc' = "applied"
  /\ prev' = res
  /\ UNCHANGED <<call, run>>
  /\ UNCHANGED <<p, q, t>>
  /\ UNCHANGED th

(* Match on the string the latest Apply returned.                          *)
DoMatchApplied ==
  /\ pc = "applied"
  /\ res.err = ErrNil
  /\ \E r \in {Match(p, res.out)} :
         /\ p' = r.p
         /\ res' = [NoRes EXCEPT !.op = "Match", !.needle = res.out, !.err = r.err,
                                 !.binds = r.binds]
  /\ pc' = "rematched"
  /\ prev' = res
  /\ UNCHANGED <<call, run>>
  /\ UNCHANGED <<q, t>>
  /\ UNCHANGED th

DoNew ==
  /\ pc = "init"
  /\ \E lhs \in TemplatesOf(MaxTTokens), rhs \in TemplatesOf(MaxTTokens),
        b \in TBinds, checked \in BOOLEAN :
       \E r \in {IF checked THEN NewReversible(lhs, rhs, b) ELSE New(lhs, rhs, b)} :
           /\ p' = r.lp
           /\ q' = r.rp
           /\ t' = IF r.err = ErrNil
                   THEN [lhs |-> "p", rhs |-> "q", checked |-> checked] ELSE NoT
           /\ pc' = IF r.err = ErrNil THEN "new" ELSE "failed"
           /\ res' = [NoRes EXCEPT !.op = IF checked THEN "NewReversible" ELSE "New",
                                   !.err = r.err]
  /\ prev' = res
  /\ UNCHANGED <<call, run>>
  /\ UNCHANGED th

DoReverse ==
  /\ pc = "new"
  /\ t.lhs = "p"
  /\ t' = Reverse(t)
  /\ UNCHANGED <<pc, p, q, res, prev, call, run>>
  /\ UNCHANGED th

DoTApply ==
  /\ pc = "new"
  /\ \E n \in NeedlesOf(MaxTNeedle) :
       \E r \in {TApply(t, [p |-> p, q |-> q], n)} :
           /\ p' = r.heap.p
           /\ q' = r.heap.q
           /\ res' = [NoRes EXCEPT !.op = "TApply", !.needle = n, !.err = r.err,
                                   !.out = r.out]
  /\ pc' = "tapplied"
  /\ prev' = res
  /\ UNCHANGED <<call, run>>
  /\ UNCHANGED t
  /\ UNCHANGED th

(* t.Reverse().Apply on the string the latest t.Apply returned.            *)
DoApplyBack ==
  /\ pc = "tapplied"
  /\ res.err = ErrNil
  /\ \E r \in {TApply(Reverse(t), [p |-> p, q |-> q], res.out)} :
         /\ p' = r.heap.p
         /\ q' = r.heap.q
         /\ res' = [NoRes EXCEPT !.op = "TApply", !.needle = res.out, !.err = r.err,
                                 !.out = r.out]
  /\ pc' = "roundtrip"
  /\ prev' = res
  /\ UNCHANGED <<call, run>>
  /\ UNCHANGED t
  /\ UNCHANGED th

DoReplace ==
  /\ pc = "new"
  /\ \E n \in NeedlesOf(MaxTNeedle) :
       \E r \in {Replace(t, [p |-> p, q |-> q], n)} :
           /\ p' = r.heap.p
           /\ q' = r.heap.q
           /\ res' = [NoRes EXCEPT !.op = "Replace", !.needle = n, !.err = r.err,
                                   !.out = r.out]
  /\ pc' = "replaced"
  /\ prev' = res
  /\ UNCHANGED <<call, run>>
  /\ UNCHANGED t
  /\ UNCHANGED th

DoReversible ==
  /\ pc = "init"
  /\ \E a \in RevBinds, b \in RevBinds :
       res' = [NoRes EXCEPT !.op = "reversible", !.vals = a, !.binds = b,
                            !.ok = reversible(a, b)]
  /\ pc' = "decided"
  /\ prev' = res
  /\ UNCHANGED <<call, run>>
  /\ UNCHANGED <<p, q, t>>
  /\ UNCHANGED th

(* P.Search up to its first callback, or to its return when it makes   *)
(* none.                                                                   *)
searchStarted(c, n) ==
  IF c.err # ErrNil THEN [pc |-> "searched", err |-> c.err, ms |-> <<>>]
  ELSE IF Len(FindAllStringSubmatchIndex(c.re, n)) = 0
       THEN [pc |-> "searched", err |-> ErrNil, ms |-> <<>>]
       ELSE [pc |-> "searching", err |-> ErrNil,
             ms |-> FindAllStringSubmatchIndex(c.re, n)]

DoSearch ==
  /\ pc = "parsed"
  /\ \E n \in NeedlesOf(MaxSNeedle) :
       \E c \in {compileRegexp(p)} :
         \E s \in {searchStarted(c, n)} :
           /\ p' = c.p
           /\ pc' = s.pc
           /\ run' = [NoRun EXCEPT !.ms = s.ms]
           /\ res' = [NoRes EXCEPT !.op = "Search", !.needle = n, !.err = s.err]
  /\ prev' = res
  /\ UNCHANGED <<q, t, call>>
  /\ UNCHANGED th

searchAfterGoOn(ret, k, n) ==
  IF k = n THEN [pc |-> "searched", err |-> ret] ELSE [pc |-> "searching", err |-> ErrNil]

(* What Search does with the error the callback for match k returned:      *)
(* return nil, return the error, go on, or return nil after the last.      *)
searchAfter(ret, k, n) ==
  IF ret = ErrStopSearch THEN [pc |-> "searched", err |-> ErrNil]
  ELSE IF ret # ErrNil THEN [pc |-> "searched", err |-> ret]
  ELSE IF k = n THEN [pc |-> "searched", err |-> ErrNil]
  ELSE [pc |-> "searching", err |-> ErrNil]

(* One callback f(m[0], m[1], bindMatches(re, m, needle)) and what Search  *)
(* does with its result.                                                   *)
DoVisit ==
  /\ pc = "searching"
  /\ res.op = "Search"
  /\ \E ret \in Returns :
       \E a \in {searchAfter(ret, run.k, Len(run.ms))} :
         /\ run' = [run EXCEPT
                      !.k = run.k + 1,
                      !.calls = Append(run.calls,
                                  [start |-> run.ms[run.k][1], end |-> run.ms[run.k][2],
                                   binds |-> bindMatches(p.re, run.ms[run.k], res.needle),
                                   text |-> <<>>]),
                      !.rets = Append(run.rets, ret)]
         /\ pc' = a.pc
         /\ res' = [res EXCEPT !.err = a.err]
  /\ UNCHANGED <<p, q, t, prev, call>>
  /\ UNCHANGED th

(* T.Search: Search on the left pattern with a callback that applies    *)
(* the binds to the right pattern and hands the text to f.                 *)
DoTSearch ==
  /\ pc = "new"
  /\ \E n \in NeedlesOf(MaxSNeedle) :
       \E c \in {compileRegexp(Cell(t.lhs))} :
         \E s \in {searchStarted(c, n)} :
           /\ p' = IF t.lhs = "p" THEN c.p ELSE p
           /\ q' = IF t.lhs = "q" THEN c.p ELSE q
           /\ pc' = s.pc
           /\ run' = [NoRun EXCEPT !.ms = s.ms]
           /\ res' = [NoRes EXCEPT !.op = "TSearch", !.needle = n, !.err = s.err]
  /\ prev' = res
  /\ UNCHANGED <<t, call>>
  /\ UNCHANGED th

(* The callback of T.Search for match k: when Apply fails its error     *)
(* ends the search and f is not called.                                    *)
tvisit(r, ret, binds) ==
  IF r.err # ErrNil THEN [ret |-> r.err, calls |-> <<>>, rets |-> <<>>]
  ELSE [ret |-> ret,
        calls |-> <<[start |-> run.ms[run.k][1], end |-> run.ms[run.k][2],
                     binds |-> binds, text |-> r.out]>>,
        rets |-> <<ret>>]

DoTVisit ==
  /\ pc = "searching"
  /\ res.op = "TSearch"
  /\ \E ret \in Returns :
       \E b \in {bindMatches(Cell(t.lhs).re, run.ms[run.k], res.needle)} :
         \E v \in {tvisit(Apply(Cell(t.rhs), b), ret, b)} :
           \E a \in {searchAfter(v.ret, run.k, Len(run.ms))} :
             /\ run' = [run EXCEPT !.k = run.k + 1,
                                   !.calls = run.calls \o v.calls,
                                   !.rets = run.rets \o v.rets]
             /\ pc' = a.pc
             /\ res' = [res EXCEPT !.err = a.err]
  /\ UNCHANGED <<p, q, t, prev, call>>
  /\ UNCHANGED th

(* Parse on any text; call.pos is the offset of the parse error.          *)
DoParseText ==
  /\ pc = "init"
  /\ \E s \in RawTemplates :
       \E r \in {Parse(s, <<>>)} :
           /\ p' = r.p
           /\ pc' = IF r.err = ErrNil THEN "parsed" ELSE "failed"
           /\ res' = [NoRes EXCEPT !.op = "Parse", !.err = r.err]
           /\ call' = [NoCall EXCEPT !.s = s,
                                     !.pos = IF r.err = ErrNil THEN -1 ELSE r.pos]
  /\ prev' = res
  /\ UNCHANGED <<q, t, run>>
  /\ UNCHANGED th

(* p.Derive(s): the derived pattern is q.                                  *)
DoDerive ==
  /\ pc = "parsed"
  /\ \E s \in DeriveTemplates :
       \E r \in {Derive(p, s)} :
           /\ q' = r.p
           /\ res' = [NoRes EXCEPT !.op = "Derive", !.err = r.err]
           /\ call' = [NoCall EXCEPT !.s = s,
                                     !.pos = IF r.err = ErrParse THEN r.pos ELSE -1]
  /\ pc' = "derived"
  /\ prev' = res
  /\ UNCHANGED <<p, t, run>>
  /\ UNCHANGED th

(* bs := p.Binds()                                                         *)
DoBinds ==
  /\ pc = "parsed"
  /\ res' = [NoRes EXCEPT !.op = "Binds", !.binds = PBinds(p)]
  /\ pc' = "listed"
  /\ prev' = res
  /\ UNCHANGED <<p, q, t, call, run>>
  /\ UNCHANGED th

(* The caller fills an entry of the list Binds returned: bs[k].Expr = "y". *)
DoEditBinds ==
  /\ pc = "listed"
  /\ \E k \in 1..Len(res.binds) :
       res' = [res EXCEPT !.op = "Edit", !.binds[k].Expr = <<"y">>]
  /\ pc' = "edited"
  /\ prev' = res
  /\ UNCHANGED <<p, q, t, call, run>>
  /\ UNCHANGED th

(* The patterns there are: p once Parse returned it, q once Bind or Derive *)
(* returned it.                                                            *)
LiveCells == IF pc = "bound" THEN {"p", "q"} ELSE IF pc = "parsed" THEN {"p"} ELSE {}

(* q = c.Bind(b)                                                           *)
DoRebind ==
  /\ \E c \in LiveCells, b \in BindLists :
       /\ q' = PBind(Cell(c), b)
       /\ res' = [NoRes EXCEPT !.op = "Bind", !.binds = b]
       /\ call' = [NoCall EXCEPT !.on = c]
  /\ pc' = "bound"
  /\ run' = NoRun
  /\ UNCHANGED <<p, t, prev>>
  /\ UNCHANGED th

(* q, err = c.Derive(s); q is assigned when err is nil.                    *)
DoDeriveTo ==
  /\ \E c \in LiveCells, s \in BindTemplates :
       \E r \in {Derive(Cell(c), s)} :
         /\ q' = IF r.err = ErrNil THEN r.p ELSE q
         /\ pc' = IF r.err = ErrNil THEN "bound" ELSE pc
         /\ res' = [NoRes EXCEPT !.op = "Derive", !.err = r.err]
         /\ call' = [NoCall EXCEPT !.on = c, !.s = s]
  /\ run' = NoRun
  /\ UNCHANGED <<p, t, prev>>
  /\ UNCHANGED th

(* c.Match(n)                                                              *)
DoMatchOn ==
  /\ \E c \in LiveCells, n \in NeedlesOf(MaxBNeedle) :
       \E r \in {Match(Cell(c), n)} :
         /\ p' = IF c = "p" THEN r.p ELSE p
         /\ q' = IF c = "q" THEN r.p ELSE q
         /\ res' = [NoRes EXCEPT !.op = "Match", !.needle = n, !.err = r.err,
                                 !.binds = r.binds]
         /\ call' = [NoCall EXCEPT !.on = c, !.built = compileRegexp(Cell(c)).built]
  /\ run' = NoRun
  /\ UNCHANGED <<pc, t, prev>>
  /\ UNCHANGED th

(* P.Search with a callback that returns nil every time.                   *)
searchCalls(c, n, ms) ==
  [k \in 1..Len(ms) |->
     [start |-> ms[k][1], end |-> ms[k][2],
      binds |-> bindMatches(c.re, ms[k], n), text |-> <<>>]]

searchAll(c, n) ==
  IF c.err # ErrNil THEN [err |-> c.err, ms |-> <<>>, calls |-> <<>>]
  ELSE [err |-> ErrNil, ms |-> FindAllStringSubmatchIndex(c.re, n),
        calls |-> searchCalls(c, n, FindAllStringSubmatchIndex(c.re, n))]

(* c.Search(n, f)                                                          *)
DoSearchOn ==
  /\ \E c \in LiveCells, n \in NeedlesOf(MaxBNeedle) :
       \E cr \in {compileRegexp(Cell(c))} :
         \E s \in {searchAll(cr, n)} :
           /\ p' = IF c = "p" THEN cr.p ELSE p
           /\ q' = IF c = "q" THEN cr.p ELSE q
           /\ res' = [NoRes EXCEPT !.op = "Search", !.needle = n, !.err = s.err]
           /\ run' = [NoRun EXCEPT !.ms = s.ms, !.k = Len(s.ms) + 1,
                                   !.calls = s.calls,
                                   !.rets = [k \in 1..Len(s.ms) |-> ErrNil]]
           /\ call' = [NoCall EXCEPT !.on = c, !.built = cr.built]
  /\ UNCHANGED <<pc, t, prev>>
  /\ UNCHANGED th

(* ApplyFunc from fragment i, a literal, up to its next call of f or to    *)
(* its return.                                                             *)
applyFuncStep(parts, i, out) ==
  IF i > Len(parts) THEN [done |-> TRUE, k |-> i, out |-> out]
  ELSE [done |-> i + 1 > Len(parts), k |-> i + 1, out |-> out \o parts[i]]

nextIndexFromZero(index, part) == IF part \in DOMAIN index THEN index[part] ELSE 0

(* n := index[part] + 1                                                    *)
nextIndex(index, part) == (IF part \in DOMAIN index THEN index[part] ELSE 0) + 1

DoApplyFunc ==
  /\ pc = "parsed"
  /\ \E st \in {applyFuncStep(p.parts, 1, <<>>)} :
         /\ pc' = IF st.done THEN "funcapplied" ELSE "binding"
         /\ run' = [NoRun EXCEPT !.k = st.k, !.out = st.out]
         /\ res' = [NoRes EXCEPT !.op = "ApplyFunc",
                                 !.out = IF st.done THEN st.out ELSE <<>>]
  /\ prev' = res
  /\ UNCHANGED <<p, q, t, call>>
  /\ UNCHANGED th

(* One call f(part, n) and what ApplyFunc does with its result.            *)
applyFuncAfter(ret, st) ==
  IF ret.err # ErrNil THEN [pc |-> "funcapplied", err |-> ErrBinding, out |-> <<>>]
  ELSE IF st.done THEN [pc |-> "funcapplied", err |-> ErrNil, out |-> st.out]
  ELSE [pc |-> "binding", err |-> ErrNil, out |-> <<>>]

DoBind ==
  /\ pc = "binding"
  /\ \E ret \in FuncReturns :
       \E n \in {nextIndex(run.index, p.parts[run.k])} :
         \E st \in {applyFuncStep(p.parts, run.k + 1, run.out \o ret.s)} :
           \E a \in {applyFuncAfter(ret, st)} :
             /\ run' = [run EXCEPT
                          !.k = st.k,
                          !.out = st.out,
                          !.index = (p.parts[run.k] :> n) @@ run.index,
                          !.calls = Append(run.calls, [name |-> p.parts[run.k], n |-> n]),
                          !.rets = Append(run.rets, ret),
                          !.word = IF ret.err # ErrNil THEN p.parts[run.k] ELSE <<>>]
             /\ pc' = a.pc
             /\ res' = [res EXCEPT !.err = a.err, !.out = a.out]
  /\ UNCHANGED <<p, q, t, prev, call>>
  /\ UNCHANGED th

(* The BindFunc that returns the n-th value bound to name in v, the last   *)
(* one when v has fewer, and an error when v has none.                     *)
valueAt(v, name, n) ==
  IF Len(All(v, name)) = 0 THEN [err |-> ErrCallback, s |-> <<>>]
  ELSE [err |-> ErrNil,
        s |-> All(v, name)[IF n <= Len(All(v, name)) THEN n ELSE Len(All(v, name))]]

(* ApplyFunc with that BindFunc, from fragment st.k on.                    *)
RECURSIVE applyFuncLoop(_, _, _, _)
applyFuncCalled(parts, st, index, v, n, r) ==
  IF r.err # ErrNil THEN [err |-> ErrBinding, out |-> <<>>]
  ELSE applyFuncLoop(parts, applyFuncStep(parts, st.k + 1, st.out \o r.s),
                     (parts[st.k] :> n) @@ index, v)

applyFuncLoop(parts, st, index, v) ==
  IF st.done THEN [err |-> ErrNil, out |-> st.out]
  ELSE applyFuncCalled(parts, st, index, v, nextIndex(index, parts[st.k]),
                       valueAt(v, parts[st.k], nextIndex(index, parts[st.k])))

ApplyFuncOf(pp, v) == applyFuncLoop(pp.parts, applyFuncStep(pp.parts, 1, <<>>), <<>>, v)

(* Goroutines calling one pattern.  compileRegexp reads p.re, and when it  *)
(* is nil builds a regexp, assigns it to p.re and reads p.re again for its *)
(* return value, with no synchronisation.  A read of p.re that another     *)
(* goroutine's assignment is not ordered before is a data race: it may     *)
(* still see nil, it may see the pointer with the Regexp behind it as      *)
(* written, or the pointer before the Regexp's fields are visible (Torn).  *)
Torn == <<"torn">>

ErrPanic == "panic"

ShareBinds ==
  { <<Bind(NameA, <<"x">>), Bind(NameB, <<"[", "x", "y", "]", "+">>)>>,
    <<Bind(NameA, ExprBad), Bind(NameB, <<"x">>)>> }

ShareTemplates == {TokA, TokB, <<"x">> \o TokA}

ShareNeedles == {<<"x">>, <<"y">>}

ShareVals == { <<>>, <<Bind(NameA, <<"x">>), Bind(NameB, <<"y">>)>> }

cacheEmptyAlways(re) == TRUE

(* p.re == nil                                                             *)
cacheEmpty(re) == re = NoRe

racyRead(c) ==
  IF th.written \ {c} = {} THEN {p.re}
  ELSE {p.re, Torn} \cup (IF c \in th.written THEN {} ELSE {NoRe})

(* What Match and Search do with the regexp compileRegexp returned.        *)
useRegexp(op, re, n) ==
  IF re = Torn
  THEN {[err |-> ErrPanic, val |-> <<>>], [err |-> ErrNoMatch, val |-> <<>>]}
  ELSE IF op = "Match"
  THEN {[err |-> matchIndex([re |-> re, p |-> p], FindStringSubmatchIndex(re, n), n).err,
         val |-> matchIndex([re |-> re, p |-> p], FindStringSubmatchIndex(re, n), n).binds]}
  ELSE {[err |-> ErrNil, val |-> searchAll([err |-> ErrNil, re |-> re], n).calls]}

(* Apply and ApplyFunc read p.parts only.                                  *)
applyShared(op, v) ==
  IF op = "Apply" THEN [err |-> Apply(p, v).err, val |-> Apply(p, v).out]
  ELSE [err |-> ApplyFuncOf(p, v).err, val |-> ApplyFuncOf(p, v).out]

At(c, where) == pc = "shared" /\ th.of[c].pc = where

Step(c, new) == th' = [th EXCEPT !.of[c] = new]

(* go f(p) for each caller, after p was parsed and perhaps matched once.   *)
DoGo ==
  /\ pc \in {"parsed", "matched"}
  /\ pc' = "shared"
  /\ th' = [NoTh EXCEPT !.prebuilt = (p.re # NoRe)]
  /\ res' = [NoRes EXCEPT !.op = "go"]
  /\ prev' = NoRes
  /\ UNCHANGED <<p, q, t, call, run>>

(* A goroutine calls p.Match(needle) or p.Search(needle, f).               *)
DoCallMatch ==
  /\ \E c \in Callers, op \in {"Match", "Search"}, n \in ShareNeedles :
       /\ At(c, "idle")
       /\ Step(c, [Idle EXCEPT !.pc = "check", !.op = op, !.arg = n])
  /\ UNCHANGED <<pc, p, q, t, res, prev, call, run>>

(* A goroutine calls p.Apply(binds) or p.ApplyFunc(f) and it returns.      *)
DoCallApply ==
  /\ \E c \in Callers, op \in {"Apply", "ApplyFunc"}, v \in ShareVals :
       /\ At(c, "idle")
       /\ Step(c, [Idle EXCEPT !.pc = "done", !.op = op, !.arg = v,
                               !.out = applyShared(op, v)])
  /\ UNCHANGED <<pc, p, q, t, res, prev, call, run>>

(* if p.re == nil                                                          *)
DoCheck ==
  /\ \E c \in Callers :
       /\ At(c, "check")
       /\ \E v \in racyRead(c) :
            Step(c, [th.of[c] EXCEPT !.pc = IF cacheEmpty(v) THEN "build" ELSE "load"])
  /\ UNCHANGED <<pc, p, q, t, res, prev, call, run>>

(* The loop over p.parts and regexp.Compile; an error returns.             *)
builtBy(c, r) ==
  IF r.err # ErrNil
  THEN [th.of[c] EXCEPT !.pc = "done", !.out = [err |-> r.err, val |-> <<>>]]
  ELSE [th.of[c] EXCEPT !.pc = "store", !.re = r.re]

DoBuild ==
  /\ \E c \in Callers :
       /\ At(c, "build")
       /\ Step(c, builtBy(c, compileLoop(p, 1, <<>>)))
  /\ UNCHANGED <<pc, p, q, t, res, prev, call, run>>

(* p.re = r                                                                *)
DoStore ==
  /\ \E c \in Callers :
       /\ At(c, "store")
       /\ p' = [p EXCEPT !.re = th.of[c].re]
       /\ th' = [th EXCEPT !.written = @ \cup {c}, !.of[c].pc = "load"]
  /\ UNCHANGED <<pc, q, t, res, prev, call, run>>

(* return p.re, nil                                                        *)
DoLoad ==
  /\ \E c \in Callers :
       /\ At(c, "load")
       /\ \E v \in racyRead(c) \ {NoRe} :
            Step(c, [th.of[c] EXCEPT !.pc = "use", !.re = v])
  /\ UNCHANGED <<pc, p, q, t, res, prev, call, run>>

(* The rest of Match or Search, with the regexp in hand.                   *)
DoUse ==
  /\ \E c \in Callers :
       /\ At(c, "use")
       /\ \E r \in useRegexp(th.of[c].op, th.of[c].re, th.of[c].arg) :
            Step(c, [th.of[c] EXCEPT !.pc = "done", !.out = r])
  /\ UNCHANGED <<pc, p, q, t, res, prev, call, run>>

(* p.ApplyFunc(f), f made of the list the latest Apply was given.          *)
DoApplyFuncOf ==
  /\ pc = "applied"
  /\ \E r \in {ApplyFuncOf(p, res.vals)} :
       res' = [NoRes EXCEPT !.op = "ApplyFunc", !.vals = res.vals, !.err = r.err,
                            !.out = r.out]
  /\ pc' = "agreed"
  /\ prev' = res
  /\ UNCHANGED <<p, q, t, call, run>>
  /\ UNCHANGED th

(* NewReversible on templates that may be malformed.                      *)
DoNewReversible ==
  /\ pc = "init"
  /\ \E lhs \in NewTemplates, rhs \in NewTemplates :
       \E r \in {NewReversible(lhs, rhs, <<Bind(NameA, ExprX), Bind(NameB, ExprX)>>)} :
           /\ p' = r.lp
           /\ q' = r.rp
           /\ t' = IF r.err = ErrNil
                   THEN [lhs |-> "p", rhs |-> "q", checked |-> TRUE] ELSE NoT
           /\ res' = [NoRes EXCEPT !.op = "NewReversible", !.err = r.err]
           /\ call' = [NoCall EXCEPT !.s = lhs, !.rhs = rhs]
  /\ pc' = "constructed"
  /\ prev' = res
  /\ UNCHANGED run
  /\ UNCHANGED th

(* Parse, then Match and Apply in either order.                            *)
NextMatch ==
  \/ DoParse(TemplatesOf(MaxTokens), RuleBinds)
  \/ DoMatch
  \/ DoApplyMatched
  \/ DoApply(OccVals(p))
  \/ DoMatchApplied

SpecMatch == Init /\ [][NextMatch]_vars

(* Parse without bindings, then Apply.                                     *)
NextApply ==
  \/ DoParse(TemplatesOf(MaxApplyTokens), {<<>>})
  \/ DoApply(ApplyVals)

SpecApply == Init /\ [][NextApply]_vars

(* A transform: New or NewReversible, then Apply, Reverse, Replace.        *)
NextTransform ==
  \/ DoNew
  \/ DoReverse
  \/ DoTApply
  \/ DoApplyBack
  \/ DoReplace

SpecTransform == Init /\ [][NextTransform]_vars

NextReversible == DoReversible

SpecReversible == Init /\ [][NextReversible]_vars

(* Search on a pattern and on a transform, callback by callback.           *)
NextSearch ==
  \/ DoParse(TemplatesOf(MaxSTokens), SearchBinds)
  \/ DoSearch
  \/ DoVisit
  \/ DoNew
  \/ DoTSearch
  \/ DoTVisit

SpecSearch == Init /\ [][NextSearch]_vars

NextParse == DoParseText

SpecParse == Init /\ [][NextParse]_vars

(* Parse, then Derive from the parsed pattern.                             *)
NextDerive ==
  \/ DoParse(DeriveTemplates, DeriveBinds)
  \/ DoDerive

SpecDerive == Init /\ [][NextDerive]_vars

(* Parse, then ApplyFunc, call by call of the BindFunc.                    *)
NextApplyFunc ==
  \/ DoParse(TemplatesOf(MaxFTokens), {<<>>})
  \/ DoApplyFunc
  \/ DoBind

SpecApplyFunc == Init /\ [][NextApplyFunc]_vars

(* Parse, then Bind, Derive, Match and Search in any order on the pattern  *)
(* parsed and on the latest pattern bound or derived.                      *)
NextBind ==
  \/ DoParse(BindTemplates, BindLists)
  \/ DoRebind
  \/ DoDeriveTo
  \/ DoMatchOn
  \/ DoSearchOn

SpecBind == Init /\ [][NextBind]_vars

(* Parse, then one of Match, Search, Apply, ApplyFunc and Binds.           *)
NextFrame ==
  \/ DoParse(TemplatesOf(MaxSTokens), SearchBinds)
  \/ DoMatch
  \/ DoSearch
  \/ DoVisit
  \/ DoApply(ApplyVals)
  \/ DoApplyFunc
  \/ DoBind
  \/ DoBinds
  \/ DoEditBinds

SpecFrame == Init /\ [][NextFrame]_vars

(* Parse with the expressions of the Match tests, then Search.             *)
NextFind ==
  \/ DoParse(TemplatesOf(MaxTokens), RuleBinds)
  \/ DoSearch
  \/ DoVisit

SpecFind == Init /\ [][NextFind]_vars

(* Parse of templates with such names, all bound, then Match.              *)
NextNames ==
  \/ DoParse(NameTemplates, NameBinds)
  \/ DoMatch

SpecNames == Init /\ [][NextNames]_vars

(* Parse, Apply, then ApplyFunc with the values of the same list.          *)
NextAgree ==
  \/ DoParse(TemplatesOf(MaxApplyTokens), {<<>>})
  \/ DoApply(ApplyVals)
  \/ DoApplyFuncOf

SpecAgree == Init /\ [][NextAgree]_vars

NextShare ==
  \/ DoParse(ShareTemplates, ShareBinds)
  \/ DoMatch
  \/ DoGo
  \/ DoCallMatch
  \/ DoCallApply
  \/ DoCheck
  \/ DoBuild
  \/ DoStore
  \/ DoLoad
  \/ DoUse

SpecShare == Init /\ [][NextShare]_vars

NextNew == DoNewReversible

SpecNew == Init /\ [][NextNew]_vars

Next == NextMatch \/ NextApply \/ NextTransform \/ NextReversible \/ NextNew \/ NextSearch \/ NextParse \/ NextDerive \/ NextApplyFunc \/ NextBind \/ NextFrame \/ NextFind \/ NextNames \/ NextAgree \/ NextShare

Spec == Init /\ [][Next]_vars

----------------------------------------------------------------------------
(* Definitions the properties are stated with.                             *)

Min(a, b) == IF a < b THEN a ELSE b

Count(bs, name) == Cardinality({k \in 1..Len(bs) : bs[k].Name = name})

RECURSIVE ValuesOf(_, _)
ValuesOf(bs, name) ==
  IF Len(bs) = 0 THEN <<>>
  ELSE (IF Head(bs).Name = name THEN <<Head(bs).Expr>> ELSE <<>>)
       \o ValuesOf(Tail(bs), name)

(* Which occurrence of its name the pattern word at index k of parts is.   *)
OccIndex(parts, k) == Cardinality({j \in NameIdx(parts) : j <= k /\ parts[j] = parts[k]})

(* parts with the k-th pattern word replaced by the k-th of texts.         *)
Interpolate(parts, texts) ==
  Flatten([k \in 1..Len(parts) |-> IF k % 2 = 1 THEN parts[k] ELSE texts[k \div 2]])

(* The offsets at which re can stop when started at one of the offsets I,  *)
(* whatever the matcher prefers: the language of re.                       *)
RECURSIVE Ends(_, _, _)
RECURSIVE EndsCat(_, _, _)
RECURSIVE EndsStar(_, _, _)
Ends(re, s, I) ==
  CASE re[1] = "empty" -> I
    [] re[1] = "lit" -> {i + 1 : i \in {j \in I : j < Len(s) /\ s[j + 1] = re[2]}}
    [] re[1] = "cls" -> {i + 1 : i \in {j \in I : j < Len(s) /\ s[j + 1] \in re[2]}}
    [] re[1] = "str" ->
         {i + Len(re[2]) : i \in {j \in I : /\ j + Len(re[2]) <= Len(s)
                                            /\ Slice(s, j, j + Len(re[2])) = re[2]}}
    [] re[1] = "cat" -> EndsCat(re[2], s, I)
    [] re[1] = "alt" -> Ends(re[2], s, I) \cup Ends(re[3], s, I)
    [] re[1] = "quest" -> I \cup Ends(re[2], s, I)
    [] re[1] = "star" -> EndsStar(re[2], s, I)
    [] re[1] = "plus" -> EndsStar(re[2], s, Ends(re[2], s, I))
    [] re[1] = "cap" -> Ends(re[3], s, I)
    [] OTHER -> {}

EndsCat(rs, s, I) ==
  IF Len(rs) = 0 THEN I ELSE EndsCat(Tail(rs), s, Ends(Head(rs), s, I))

EndsStar(re, s, I) ==
  IF Ends(re, s, I) \subseteq I THEN I ELSE EndsStar(re, s, I \cup Ends(re, s, I))

(* The expansion of a template: its literals and its bound expressions.    *)
Expansion(pp) ==
  Cat([k \in 1..Len(pp.parts) |->
         IF k % 2 = 1 THEN <<"str", pp.parts[k]>> ELSE syntaxParse(pp.rules[pp.parts[k]])])

FullMatch(pp, s) == Len(s) \in Ends(Expansion(pp), s, {0})

AllBoundValid(pp) ==
  \A n \in DOMAIN pp.rules : pp.rules[n] # ExprEmpty /\ syntaxParse(pp.rules[n])[1] # "bad"

SomeUnbound(pp) == \E n \in DOMAIN pp.rules : pp.rules[n] = ExprEmpty

SearchRe == IF res.op = "Search" THEN p.re ELSE Cell(t.lhs).re

(* A Search on a pattern or a transform that compiled its expression.      *)
InSearch == res.op \in {"Search", "TSearch"} /\ SearchRe[1] # "nil"

(* Search returned and no callback returned an error.                      *)
SearchedAll == pc = "searched" /\ \A k \in 1..Len(run.rets) : run.rets[k] = ErrNil

PrevEnd(calls, k) == IF k = 1 THEN 0 ELSE calls[k - 1].end

(* The first offset after the match before callback k at which a match    *)
(* would be another match: after an empty match, the offset after it.      *)
GapStart(calls, k) ==
  IF k > 1 /\ calls[k - 1].start = calls[k - 1].end
  THEN calls[k - 1].end + 1 ELSE PrevEnd(calls, k)

SpansInOrder(calls, n) ==
  \A k \in 1..Len(calls) :
    /\ PrevEnd(calls, k) <= calls[k].start
    /\ calls[k].start <= calls[k].end
    /\ calls[k].end <= n

(* Nothing matches at offset i, or i is where the match before callback k  *)
(* ended and the expression prefers the empty match there.                 *)
SkippedRightly(calls, k, i) ==
  \/ Len(Paths(SearchRe, res.needle, i)) = 0
  \/ /\ k > 1
     /\ i = calls[k - 1].end
     /\ Head(Paths(SearchRe, res.needle, i)).e = i

(* The grammar of templates, read off the text from index i on.           *)
NameChars ==
  {"a", "b", "c", "x", "y", "z", "0", "1", "_", "-", "+", "/", ":", "=", "#"}

(* The index of the first character from i on that is not of a name.       *)
RECURSIVE NameEnd(_, _)
NameEnd(s, i) == IF i <= Len(s) /\ s[i] \in NameChars THEN NameEnd(s, i + 1) ELSE i

ClosedWordAt(s, i) ==
  /\ i + 1 <= Len(s)
  /\ s[i + 1] = "{"
  /\ NameEnd(s, i + 2) <= Len(s)
  /\ s[NameEnd(s, i + 2)] = "}"
  /\ NameEnd(s, i + 2) > i + 2

EscapeAt(s, i) == i + 1 <= Len(s) /\ s[i + 1] = "$"

RECURSIVE Grammar(_, _)
Grammar(s, i) ==
  IF i > Len(s) THEN TRUE
  ELSE IF s[i] # "$" THEN Grammar(s, i + 1)
  ELSE IF EscapeAt(s, i) THEN Grammar(s, i + 2)
  ELSE ClosedWordAt(s, i) /\ Grammar(s, NameEnd(s, i + 2) + 1)

(* The literal text of an accepted template and its pattern words.         *)
RECURSIVE LiteralText(_, _)
LiteralText(s, i) ==
  IF i > Len(s) THEN <<>>
  ELSE IF s[i] # "$" THEN <<s[i]>> \o LiteralText(s, i + 1)
  ELSE IF EscapeAt(s, i) THEN <<"$">> \o LiteralText(s, i + 2)
  ELSE LiteralText(s, NameEnd(s, i + 2) + 1)

RECURSIVE WordsOf(_, _)
WordsOf(s, i) ==
  IF i > Len(s) THEN <<>>
  ELSE IF s[i] # "$" THEN WordsOf(s, i + 1)
  ELSE IF EscapeAt(s, i) THEN WordsOf(s, i + 2)
  ELSE <<SubSeq(s, i + 2, NameEnd(s, i + 2) - 1)>> \o WordsOf(s, NameEnd(s, i + 2) + 1)

(* The offset a parse error of s is to carry: of the offending character   *)
(* after "$" or in a name, of the "$" of a construct the text ends in;     *)
(* -1 when there is no error, -2 for an empty name.                        *)
RECURSIVE ErrOffset(_, _)
ErrOffset(s, i) ==
  IF i > Len(s) THEN -1
  ELSE IF s[i] # "$" THEN ErrOffset(s, i + 1)
  ELSE IF i = Len(s) THEN i - 1
  ELSE IF s[i + 1] = "$" THEN ErrOffset(s, i + 2)
  ELSE IF s[i + 1] # "{" THEN i
  ELSE IF NameEnd(s, i + 2) > Len(s) THEN i - 1
  ELSE IF s[NameEnd(s, i + 2)] # "}" THEN NameEnd(s, i + 2) - 1
  ELSE IF NameEnd(s, i + 2) = i + 2 THEN -2
  ELSE ErrOffset(s, NameEnd(s, i + 2) + 1)

Literals(parts) == Flatten([k \in 1..((Len(parts) + 1) \div 2) |-> parts[2 * k - 1]])

EscapeDollars(lit) ==
  Flatten([k \in 1..Len(lit) |-> IF lit[k] = "$" THEN <<"$", "$">> ELSE <<lit[k]>>])

Serialize(parts) ==
  Flatten([k \in 1..Len(parts) |->
             IF k % 2 = 1 THEN EscapeDollars(parts[k])
             ELSE <<"$", "{">> \o parts[k] \o <<"}">>])

Names(parts) == [k \in 1..(Len(parts) \div 2) |-> parts[2 * k]]

EndsWithLiteral(pp) ==
  /\ Len(pp.parts) % 2 = 1
  /\ Names(pp.parts) = WordsOf(pp.template, 1)

(* The literal text after the last pattern word of an accepted template.  *)
RECURSIVE LastText(_, _, _)
LastText(s, i, acc) ==
  IF i > Len(s) THEN acc
  ELSE IF s[i] # "$" THEN LastText(s, i + 1, Append(acc, s[i]))
  ELSE IF EscapeAt(s, i) THEN LastText(s, i + 2, Append(acc, "$"))
  ELSE LastText(s, NameEnd(s, i + 2) + 1, <<>>)

AlternatesFromLiteral(pp) ==
  /\ Names(pp.parts) = WordsOf(pp.template, 1)
  /\ Literals(pp.parts) = LiteralText(pp.template, 1)
  /\ Len(pp.parts) = 2 * Len(WordsOf(pp.template, 1))
                       + (IF Len(LastText(pp.template, 1, <<>>)) > 0 THEN 1 ELSE 0)
  /\ Len(pp.parts) % 2 = 1 => pp.parts[Len(pp.parts)] = LastText(pp.template, 1, <<>>)

(* The calls ApplyFunc is to make for the fragments parts, in order.       *)
FuncCalls(parts) ==
  [j \in 1..(Len(parts) \div 2) |-> [name |-> parts[2 * j], n |-> OccIndex(parts, 2 * j)]]

LastFailed(rets) == Len(rets) > 0 /\ rets[Len(rets)].err # ErrNil

WellFormed(s) == parse(s).err = ErrNil

(* The occurrences of pattern words in a well-formed template, as binds.   *)
Words(s) == [k \in 1..Len(parse(s).pat) |-> Bind(parse(s).pat[k], <<>>)]

SameWords(a, b) ==
  \A n \in Range(BindNames(Words(a))) \cup Range(BindNames(Words(b))) :
    Count(Words(a), n) = Count(Words(b), n)

(* The needle with each match of ms replaced by the text for it and the    *)
(* spans between the matches, before the first and after the last kept.    *)
RECURSIVE Spliced(_, _, _, _, _)
Spliced(needle, ms, texts, k, cur) ==
  IF k > Len(ms) THEN Slice(needle, cur, Len(needle))
  ELSE Slice(needle, cur, ms[k][1]) \o texts[k]
       \o Spliced(needle, ms, texts, k + 1, ms[k][2])

Rewritten(lhs, rhs, needle, ms) ==
  Spliced(needle, ms,
          [k \in 1..Len(ms) |-> Apply(rhs, bindMatches(lhs.re, ms[k], needle)).out], 1, 0)

----------------------------------------------------------------------------
(* Properties.                                                             *)

(* C1: Replace returns the needle with each non-overlapping match of the   *)
(* left pattern replaced by the right pattern's rendering of its binds and *)
(* every non-matched span (before the first match, between matches, after  *)
(* the last match) copied unchanged; with no match it returns the needle.  *)
C1_ReplaceKeepsUnmatchedSpans ==
  (pc = "replaced" /\ res.err = ErrNil) =>
    res.out = Rewritten(Cell(t.lhs), Cell(t.rhs), res.needle,
                        FindAllStringSubmatchIndex(Cell(t.lhs).re, res.needle))

(* C2: for a transform built by the checked constructor, if Apply(x)       *)
(* succeeds with a then Reverse().Apply(a) succeeds and returns x (and the *)
(* same from the reversed transform).                                      *)
C2_ReverseUndoesApply ==
  (pc = "roundtrip" /\ t.checked) => (res.err = ErrNil /\ res.out = prev.needle)

(* C3: with every pattern word bound to a valid expression, Match succeeds *)
(* exactly when the expansion of the template matches the entire needle,   *)
(* and returns ErrNoMatch with nil binds otherwise.                        *)
C3_MatchIffExpansionMatchesWhole ==
  (pc = "matched" /\ AllBoundValid(p)) =>
    /\ (res.err = ErrNil) <=> FullMatch(p, res.needle)
    /\ ~FullMatch(p, res.needle) => (res.err = ErrNoMatch /\ res.binds = <<>>)

(* C4: a successful Match returns one Bind per pattern word occurrence, in *)
(* template order and with the names of p.Binds(), each carrying the part  *)
(* of the needle that occurrence spans; groups inside a bound expression   *)
(* add no Bind, and a template without pattern words gives nil binds.      *)
C4_OneBindPerOccurrence ==
  (res.op = "Match" /\ res.err = ErrNil) =>
    /\ BindNames(res.binds) = BindNames(PBinds(p))
    /\ Interpolate(p.parts, [k \in 1..Len(res.binds) |-> res.binds[k].Expr]) = res.needle
    /\ (Len(p.parts) <= 1 => res.binds = <<>>)

C4_Witness ==
  /\ pc = "matched"
  /\ res.err = ErrNil
  /\ Len(res.binds) = 2
  /\ res.binds[1].Name = res.binds[2].Name
  /\ res.binds[1].Expr # res.binds[2].Expr
  /\ p.rules[res.binds[1].Name] = ExprNamed

(* C5: Apply on the binds of a successful Match(s) succeeds and gives s.   *)
C5_ApplyOfMatch ==
  pc = "reapplied" => (res.err = ErrNil /\ res.out = prev.needle)

C5_Witness ==
  /\ pc = "reapplied"
  /\ Len(prev.binds) = 2
  /\ prev.binds[1].Name = prev.binds[2].Name
  /\ prev.binds[1].Expr # prev.binds[2].Expr
  /\ res.out = prev.needle

(* C6, as stated: for binds with one value per occurrence in template      *)
(* order, Match(Apply(binds)) succeeds and returns binds.                  *)
C6_MatchOfApply ==
  pc = "rematched" => (res.err = ErrNil /\ res.binds = prev.vals)

(* C6, amended: Match(Apply(binds)) may fail; when it succeeds it returns  *)
(* the names of binds in the same order and values that Apply renders to   *)
(* the same string, and binds itself when the template has at most one     *)
(* pattern word occurrence.                                                *)
C6_MatchOfApplyWhenItSucceeds ==
  (pc = "rematched" /\ res.err = ErrNil) =>
    /\ BindNames(res.binds) = BindNames(prev.vals)
    /\ Apply(p, res.binds) = [err |-> ErrNil, out |-> prev.out, name |-> <<>>]
    /\ (Len(prev.vals) <= 1 => res.binds = prev.vals)

C6_Witness ==
  /\ pc = "rematched"
  /\ res.err = ErrNil
  /\ Len(res.binds) = 2
  /\ res.binds # prev.vals

(* C7: Apply writes literals verbatim and, for the k-th occurrence of a    *)
(* name with c >= 1 values in binds, the min(k, c)-th value given for that *)
(* name, in the order binds gives them.                                    *)
C7_ApplyFifoThenRepeat ==
  (pc = "applied" /\ res.err = ErrNil) =>
    res.out = Interpolate(p.parts,
                [j \in 1..(Len(p.parts) \div 2) |->
                   ValuesOf(res.vals, p.parts[2 * j])
                     [Min(OccIndex(p.parts, 2 * j),
                          Len(ValuesOf(res.vals, p.parts[2 * j])))]])

C7_Witness ==
  /\ pc = "applied"
  /\ res.err = ErrNil
  /\ Len(p.parts) \div 2 = 3
  /\ \E n \in PartNames(p.parts) : Count(PBinds(p), n) = 3 /\ Count(res.vals, n) = 2
  /\ Len(res.vals) = 3
  /\ res.vals[1].Name # res.vals[2].Name
  /\ res.vals[1].Expr # res.vals[3].Expr

(* C8: Apply fails with a missing-binding error and an empty string        *)
(* exactly when some name of the template has no binding in binds;         *)
(* bindings of other names change neither the error nor the output.        *)
C8_MissingBindingIffNameUnbound ==
  pc = "applied" =>
    /\ (res.err # ErrNil) <=> (\E n \in PartNames(p.parts) : Count(res.vals, n) = 0)
    /\ res.err # ErrNil => (res.err = ErrMissingBinding /\ res.out = <<>>)
    /\ Apply(p, SelectSeq(res.vals, LAMBDA b : b.Name \in PartNames(p.parts))).out = res.out

C8_Witness ==
  /\ pc = "applied"
  /\ res.err = ErrMissingBinding
  /\ Len(res.vals) = 3
  /\ Len(p.parts) \div 2 = 2

(* C9: a pattern with a pattern word that has no expression does not       *)
(* compile: Match returns a compile error, never a match.                  *)
C9_UnboundWordIsCompileError ==
  (pc = "matched" /\ SomeUnbound(p)) =>
    res.err \in {ErrNoBinding, ErrInvalidExpr, ErrCompile}

(* C10: reversible(a, b) is true exactly when every name occurs as often   *)
(* in a as in b, whatever the order and the expressions.                   *)
C10_ReversibleIffSameMultiset ==
  pc = "decided" =>
    (res.ok <=> \A n \in Range(BindNames(res.vals)) \cup Range(BindNames(res.binds)) :
                  Count(res.vals, n) = Count(res.binds, n))

C10_Witness ==
  /\ pc = "decided"
  /\ res.ok
  /\ Len(res.vals) = 3
  /\ BindNames(res.vals) # BindNames(res.binds)
  /\ res.vals[1].Expr # res.binds[1].Expr

(* C11: NewReversible returns ErrNotReversible exactly when both templates *)
(* are well-formed and their pattern word multisets differ; a malformed    *)
(* left or right template gives a parse error, which is not                *)
(* ErrNotReversible; well-formed templates with equal multisets succeed.   *)
C11_NotReversibleIffMultisetsDiffer ==
  pc = "constructed" =>
    /\ (res.err = ErrNotReversible) <=>
         (WellFormed(call.s) /\ WellFormed(call.rhs) /\ ~SameWords(call.s, call.rhs))
    /\ (~WellFormed(call.s) \/ ~WellFormed(call.rhs)) => res.err = ErrParse
    /\ (WellFormed(call.s) /\ WellFormed(call.rhs) /\ SameWords(call.s, call.rhs))
         => res.err = ErrNil

(* C12, as stated: the callbacks of Search are made left to right on       *)
(* non-overlapping spans, 0 <= s1 <= e1 <= s2 <= e2 <= len(needle), and no *)
(* match that starts at or after the end of the previous one is skipped.   *)
C12_SearchSkipsNoMatch ==
  InSearch =>
    /\ SpansInOrder(run.calls, Len(res.needle))
    /\ \A k \in 1..Len(run.calls) :
         \A i \in GapStart(run.calls, k)..(run.calls[k].start - 1) :
           Ends(SearchRe, res.needle, {i}) = {}
    /\ SearchedAll =>
         \A i \in GapStart(run.calls, Len(run.calls) + 1)..Len(res.needle) :
           Ends(SearchRe, res.needle, {i}) = {}

(* C12, amended: the callbacks are made left to right on non-overlapping   *)
(* spans, each the match the expression prefers at its start; the only     *)
(* match that is skipped is an empty match that the expression prefers     *)
(* exactly where the previous match ended.                                 *)
C12_SearchSkipsOnlyAbuttingEmpty ==
  InSearch =>
    /\ SpansInOrder(run.calls, Len(res.needle))
    /\ \A k \in 1..Len(run.calls) :
         /\ Head(Paths(SearchRe, res.needle, run.calls[k].start)).e = run.calls[k].end
         /\ \A i \in PrevEnd(run.calls, k)..(run.calls[k].start - 1) :
              SkippedRightly(run.calls, k, i)
    /\ SearchedAll =>
         \A i \in PrevEnd(run.calls, Len(run.calls) + 1)..Len(res.needle) :
           SkippedRightly(run.calls, Len(run.calls) + 1, i)

C12_Witness ==
  /\ pc = "searched"
  /\ Len(run.calls) = 2
  /\ run.calls[1].end < run.calls[2].start
  /\ Ends(SearchRe, res.needle, {run.calls[1].end}) # {}

(* C13: after a callback returns an error no further callback is made;     *)
(* Search returns nil when that error is ErrStopSearch and the error       *)
(* itself otherwise; when no callback returns an error Search returns nil  *)
(* after a callback for every match.                                       *)
C13_SearchStopsAtFirstError ==
  InSearch =>
    /\ \A k \in 1..(Len(run.rets) - 1) : run.rets[k] = ErrNil
    /\ (pc = "searching" /\ Len(run.rets) > 0) => run.rets[Len(run.rets)] = ErrNil
    /\ (pc = "searched" /\ Len(run.rets) > 0 /\ run.rets[Len(run.rets)] # ErrNil) =>
         res.err = IF run.rets[Len(run.rets)] = ErrStopSearch
                   THEN ErrNil ELSE run.rets[Len(run.rets)]
    /\ SearchedAll =>
         /\ res.err = ErrNil
         /\ Len(run.calls) = Len(FindAllStringSubmatchIndex(SearchRe, res.needle))

C13_Witness ==
  /\ pc = "searched"
  /\ res.op = "TSearch"
  /\ Len(run.ms) = 3
  /\ run.rets = <<ErrNil, ErrCallback>>
  /\ res.err = ErrCallback

(* C14: Parse accepts a template exactly when every "$" of free text is    *)
(* followed by "$" or "{", every "${" is closed by "}" and every name is   *)
(* non-empty and made of letters, digits and _ - + / : = #; otherwise it   *)
(* returns a parse error and no pattern.  In an accepted template "$$"     *)
(* gives one "$" of literal text and no pattern word, and "{" and "}"      *)
(* outside a pattern word are literal text.                                *)
C14_ParseAcceptsTheGrammar ==
  res.op = "Parse" =>
    /\ (res.err = ErrNil) <=> Grammar(call.s, 1)
    /\ res.err # ErrNil => (res.err = ErrParse /\ p = NoP)
    /\ res.err = ErrNil =>
         /\ Literals(p.parts) = LiteralText(call.s, 1)
         /\ [k \in 1..(Len(p.parts) \div 2) |-> p.parts[2 * k]] = WordsOf(call.s, 1)

C14_Witness ==
  /\ pc = "parsed"
  /\ call.s = <<"}", "$", "{", "-", "}", "{">>
  /\ p.parts = <<<<"}">>, <<"-">>, <<"{">>>>

(* C15: a parse error carries an offset into the template: that of the     *)
(* offending character after "$" or inside a name, and that of the "$"     *)
(* that opened the construct when the text ends inside it.                 *)
C15_ParseErrorOffset ==
  (res.op = "Parse" /\ res.err # ErrNil) =>
    /\ call.pos \in 0..(Len(call.s) - 1)
    /\ ErrOffset(call.s, 1) # -2 => call.pos = ErrOffset(call.s, 1)

C15_Witness ==
  /\ pc = "failed"
  /\ call.s = <<"$", "{", "a", "}", "$", "{">>
  /\ call.pos = 4

(* C16: for an accepted template, writing the fragments back, each "$" of  *)
(* a literal as "$$" and each name n as "${n}", gives the template text.   *)
C16_SerializeOfParse ==
  (res.op = "Parse" /\ res.err = ErrNil) =>
    (Serialize(p.parts) = call.s /\ p.template = call.s)

C16_Witness ==
  /\ pc = "parsed"
  /\ call.s = <<"$", "$", "$", "{", "a", "}">>
  /\ p.parts = <<<<"$">>, <<"a">>>>

(* C17: p.Derive(s) returns a parse error when s is malformed and an       *)
(* unknown-word error when s is well-formed and has a name that is not in  *)
(* the rules of p; otherwise it returns a pattern with the fragments of s  *)
(* and rules for exactly the names of s, each with the expression p has    *)
(* for it.                                                                 *)
C17_DeriveRestrictsRules ==
  res.op = "Derive" =>
    /\ ~Grammar(call.s, 1) => res.err = ErrParse
    /\ (Grammar(call.s, 1) /\ ~(Range(WordsOf(call.s, 1)) \subseteq DOMAIN p.rules))
         => res.err = ErrUnknownWord
    /\ (Grammar(call.s, 1) /\ Range(WordsOf(call.s, 1)) \subseteq DOMAIN p.rules) =>
         /\ res.err = ErrNil
         /\ q.template = call.s
         /\ Serialize(q.parts) = call.s
         /\ DOMAIN q.rules = Range(WordsOf(call.s, 1))
         /\ \A n \in DOMAIN q.rules : q.rules[n] = p.rules[n]
    /\ res.err # ErrNil => q = NoP

C17_Witness ==
  /\ pc = "derived"
  /\ res.err = ErrNil
  /\ DOMAIN p.rules = {NameA, NameB}
  /\ DOMAIN q.rules = {NameB}
  /\ q.rules[NameB] = ExprX
  /\ Len(q.parts) = 3

(* C20, as stated: the fragments of a pattern made by Parse or Derive      *)
(* alternate literal and name and begin and end with a literal, which may  *)
(* be empty; there are as many names as pattern word occurrences in the    *)
(* template.                                                               *)
C20_PartsBeginAndEndWithLiteral ==
  /\ pc \in {"parsed", "derived"} => EndsWithLiteral(p)
  /\ (pc = "derived" /\ res.err = ErrNil) => EndsWithLiteral(q)

(* C20, amended: the fragments alternate literal and name beginning with   *)
(* a literal, with as many names as pattern word occurrences; the literal  *)
(* after the last name is there exactly when it is not empty, so the       *)
(* fragments end with a name when the template ends with a pattern word    *)
(* and are empty for the empty template.                                   *)
C20_PartsOmitEmptyLastLiteral ==
  /\ pc \in {"parsed", "derived"} => AlternatesFromLiteral(p)
  /\ (pc = "derived" /\ res.err = ErrNil) => AlternatesFromLiteral(q)

C20_Witness ==
  /\ pc = "derived"
  /\ res.err = ErrNil
  /\ Len(q.parts) = 4
  /\ q.parts[2] = q.parts[4]
  /\ Len(p.parts) = 3

(* C18: ApplyFunc walks the fragments in template order and calls f(name,  *)
(* n) exactly once for the n-th occurrence of name, counting from 1 for    *)
(* each name, writing what f returns in its place; when f returns an error *)
(* ApplyFunc calls f no more and returns an empty string and an error that *)
(* names the pattern word.                                                 *)
C18_ApplyFuncCallsInOrder ==
  res.op = "ApplyFunc" =>
    /\ Len(run.calls) <= Len(p.parts) \div 2
    /\ run.calls = SubSeq(FuncCalls(p.parts), 1, Len(run.calls))
    /\ \A k \in 1..(Len(run.rets) - 1) : run.rets[k].err = ErrNil
    /\ (pc = "binding") => ~LastFailed(run.rets)
    /\ (pc = "funcapplied" /\ LastFailed(run.rets)) =>
         /\ res.err = ErrBinding
         /\ res.out = <<>>
         /\ run.word = run.calls[Len(run.calls)].name
    /\ (pc = "funcapplied" /\ ~LastFailed(run.rets)) =>
         /\ res.err = ErrNil
         /\ run.calls = FuncCalls(p.parts)
         /\ res.out = Interpolate(p.parts, [k \in 1..Len(run.rets) |-> run.rets[k].s])

C18_Witness ==
  /\ pc = "funcapplied"
  /\ res.err = ErrNil
  /\ Len(run.calls) = 3
  /\ run.calls[1].name = run.calls[3].name
  /\ run.calls[2].name # run.calls[1].name
  /\ run.calls[3].n = 2
  /\ res.out = <<"x", "y">>

(* The patterns the transform refers to, as they are now.                  *)
Heap == [p |-> p, q |-> q]

SameResult(a, b) == a.err = b.err /\ a.out = b.out

SameOnNeedle(ta, tb, n) ==
  /\ SameResult(TApply(ta, Heap, n), TApply(tb, Heap, n))
  /\ SameResult(Replace(ta, Heap, n), Replace(tb, Heap, n))
  /\ searchStarted(compileRegexp(Heap[ta.lhs]), n)
       = searchStarted(compileRegexp(Heap[tb.lhs]), n)

(* C19: Reverse of a reversible transform t has the right pattern of t as  *)
(* its left pattern and the left pattern of t as its right pattern; t is   *)
(* unchanged by it, so that after t.Reverse().Apply the call t.Apply gives *)
(* what it gave before; and t.Reverse().Reverse() gives what t gives for   *)
(* Apply, Search and Replace on every needle.                              *)
C19_ReverseSwapsAndKeeps ==
  (t # NoT /\ t.checked) =>
    /\ Reverse(t).lhs = t.rhs
    /\ Reverse(t).rhs = t.lhs
    /\ (pc = "new") =>
         \A n \in NeedlesOf(MaxTNeedle) : SameOnNeedle(Reverse(Reverse(t)), t, n)
    /\ (pc = "roundtrip") =>
         /\ SameResult(TApply(t, Heap, prev.needle), prev)
         /\ SameOnNeedle(Reverse(Reverse(t)), t, prev.needle)

C19_Witness ==
  /\ pc = "roundtrip"
  /\ t.checked
  /\ res.err = ErrNil
  /\ p.parts # q.parts
  /\ Len(prev.needle) > 0
  /\ prev.out # prev.needle
  /\ SameResult(TApply(t, Heap, prev.needle), prev)

(* C21: after any sequence of Parse, Derive and Bind, also with bindings   *)
(* of names that are no pattern words, the keys of the rules of every      *)
(* pattern are exactly the names of the pattern words among its fragments. *)
C21_RuleKeysAreTheWords ==
  /\ (pc \in {"parsed", "bound"}) => DOMAIN p.rules = PartNames(p.parts)
  /\ (pc = "bound") => DOMAIN q.rules = PartNames(q.parts)

C21_Witness ==
  /\ pc = "bound"
  /\ res.op = "Bind"
  /\ call.on = "q"
  /\ res.binds = <<Bind(NameB, ExprBad), Bind(NameA, ExprX)>>
  /\ q.parts # p.parts
  /\ DOMAIN q.rules = {NameA}
  /\ q.rules[NameA] = ExprX

(* What the rules of pp give, apart from any regexp compiled earlier.      *)
Fresh(pp) == [pp EXCEPT !.re = NoRe]

CacheIsOfTheRules(pp) ==
  pp.re # NoRe =>
    /\ compileLoop(pp, 1, <<>>).err = ErrNil
    /\ pp.re = compileLoop(pp, 1, <<>>).re

ResultIsOfTheRules ==
  /\ (res.op = "Match") =>
       /\ res.err = Match(Fresh(Cell(call.on)), res.needle).err
       /\ res.binds = Match(Fresh(Cell(call.on)), res.needle).binds
  /\ (res.op = "Search" /\ call.on # "") =>
       /\ res.err = searchAll(compileRegexp(Fresh(Cell(call.on))), res.needle).err
       /\ run.calls = searchAll(compileRegexp(Fresh(Cell(call.on))), res.needle).calls

(* A step that is no Bind and no Derive keeps a compiled regexp, and a     *)
(* call compiles one only for a pattern that has none.                     *)
BuildsOnce ==
  /\ (p.re # NoRe) => p'.re = p.re
  /\ (pc = "bound" /\ q.re # NoRe /\ res'.op \notin {"Bind", "Derive"}) => q'.re = q.re
  /\ (call'.built /\ res'.op \in {"Match", "Search"}) => Cell(call'.on).re = NoRe

(* C22: whatever the order of Match, Search and Bind, each Match and       *)
(* Search returns what the rules of its pattern at that call determine: a  *)
(* regexp compiled before a Bind is not used by the pattern Bind returns,  *)
(* and between two Binds the regexp of a pattern is compiled at most once. *)
C22_MatcherFollowsTheRules ==
  /\ [](CacheIsOfTheRules(p) /\ CacheIsOfTheRules(q) /\ ResultIsOfTheRules)
  /\ [][BuildsOnce]_vars

C22_Witness ==
  /\ pc = "bound"
  /\ res.op = "Match"
  /\ call.on = "q"
  /\ call.built
  /\ p.re # NoRe
  /\ q.re # NoRe
  /\ q.re # p.re
  /\ q.parts = p.parts
  /\ res.err = ErrNil
  /\ Match(p, res.needle).err = ErrNoMatch

(* pp has a pattern word bound to an expression that does not parse.       *)
HasBadRule(pp) ==
  \E n \in PartNames(pp.parts) : syntaxParse(pp.rules[n]) = BadExpr

(* C24: Parse and Bind do not check the expressions; a pattern with a word *)
(* bound to an expression that does not parse is built without error, and  *)
(* each Match and Search on it returns the compile error, with no binds    *)
(* and no callback, while a pattern in which that word was bound anew to   *)
(* a valid expression matches and searches as usual.                       *)
C24_BadExpressionFailsAtUse ==
  /\ (res.op = "Parse") => res.err = ErrNil
  /\ (res.op \in {"Match", "Search"} /\ call.on # "") =>
       IF HasBadRule(Cell(call.on))
       THEN /\ res.err = ErrInvalidExpr
            /\ res.binds = <<>>
            /\ run.calls = <<>>
            /\ Cell(call.on).re = NoRe
       ELSE /\ res.err \in {ErrNil, ErrNoMatch}
            /\ (res.op = "Search") => res.err = ErrNil

C24_Witness ==
  /\ pc = "bound"
  /\ res.op = "Match"
  /\ call.on = "q"
  /\ q.parts = p.parts
  /\ HasBadRule(p)
  /\ Match(p, res.needle).err = ErrInvalidExpr
  /\ ~HasBadRule(q)
  /\ res.err = ErrNil
  /\ Len(res.binds) > 0

(* The expression of the last binding of name n in binds.                  *)
LastExpr(binds, n) ==
  binds[CHOOSE k \in 1..Len(binds) :
          binds[k].Name = n /\ \A j \in (k + 1)..Len(binds) : binds[j].Name # n].Expr

BoundAs(new, old, binds) ==
  /\ new.template = old.template
  /\ new.parts = old.parts
  /\ DOMAIN new.rules = DOMAIN old.rules
  /\ \A n \in DOMAIN new.rules :
       new.rules[n] = IF \E k \in 1..Len(binds) : binds[k].Name = n
                      THEN LastExpr(binds, n) ELSE old.rules[n]

(* C26: Bind returns a new pattern with the template and the fragments of  *)
(* its receiver, in which each word named in binds has the expression      *)
(* given last for it and every other word keeps the expression of the      *)
(* receiver; the receiver keeps its rules and its compiled regexp (and so  *)
(* Match on it gives after the call what it gave before).                  *)
C26_BindReturnsMergedCopy ==
  [][(res'.op = "Bind") =>
       /\ BoundAs(q', Cell(call'.on), res'.binds)
       /\ p' = p]_vars

C26_Witness ==
  /\ pc = "bound"
  /\ res.op = "Bind"
  /\ call.on = "p"
  /\ res.binds = <<Bind(NameA, ExprX), Bind(NameA, ExprBad)>>
  /\ PartNames(p.parts) = {NameA, NameB}
  /\ p.re # NoRe
  /\ q.re = NoRe
  /\ p.rules[NameA] = ExprX
  /\ q.rules[NameA] = ExprBad
  /\ q.rules[NameB] = ExprX

(* C23: in every transform that New returned, reversed any number of       *)
(* times, the names of the pattern words of the right pattern are among    *)
(* those of the left pattern.                                              *)
C23_RightWordsAmongLeft ==
  (t # NoT) => PartNames(Cell(t.rhs).parts) \subseteq PartNames(Cell(t.lhs).parts)

(* bs has one entry for each pattern word of pp as it occurs, in the order *)
(* of the template, with the expression the rules of pp give to its name.  *)
BindsListed(pp, bs) ==
  /\ Len(bs) = Len(pp.parts) \div 2
  /\ \A k \in 1..Len(bs) :
       /\ bs[k].Name = pp.parts[2 * k]
       /\ bs[k].Expr = pp.rules[pp.parts[2 * k]]

KeepsPattern ==
  (pc # "init") =>
    /\ p'.template = p.template
    /\ p'.parts = p.parts
    /\ p'.rules = p.rules

(* C25: Match, Search, Apply and ApplyFunc, failing or not, leave the      *)
(* template, the fragments and the rules of the pattern as they were (and  *)
(* the list given to Apply is only read); Binds lists one entry for each   *)
(* occurrence of a pattern word, in template order, with the expression    *)
(* bound to it, and a change of that list changes nothing in the pattern.  *)
C25_CallsKeepThePattern ==
  /\ [][KeepsPattern]_vars
  /\ []((res.op = "Binds") => BindsListed(p, res.binds))
  /\ []((res.op = "Edit") => (BindsListed(p, prev.binds) /\ res.binds # prev.binds))

C25_Witness ==
  /\ pc = "searched"
  /\ res.op = "Search"
  /\ res.err = ErrCallback
  /\ Len(run.calls) = 2
  /\ p.re # NoRe
  /\ NameB \in DOMAIN p.rules
  /\ p.rules[NameB] = ExprStar

(* The binds of a callback are those of its match.                         *)
BindsOfMatch(pp, needle, c) ==
  /\ Len(c.binds) = Len(pp.parts) \div 2
  /\ \A j \in 1..Len(c.binds) : c.binds[j].Name = pp.parts[2 * j]
  /\ Apply(pp, c.binds).err = ErrNil
  /\ Apply(pp, c.binds).out = Slice(needle, c.start, c.end)

(* C27: the binds Search hands to a callback with (start, end) are those   *)
(* of that match: one entry for each occurrence of a pattern word, in      *)
(* template order, and Apply of the pattern to them gives exactly          *)
(* needle[start:end].                                                      *)
C27_CallbackBindsRenderTheMatch ==
  (res.op = "Search") =>
    \A k \in 1..Len(run.calls) : BindsOfMatch(p, res.needle, run.calls[k])

C27_Witness ==
  /\ res.op = "Search"
  /\ Len(run.calls) = 2
  /\ Len(run.calls[2].binds) = 2
  /\ run.calls[2].binds[1].Expr # run.calls[2].binds[2].Expr
  /\ run.calls[1].binds # run.calls[2].binds
  /\ run.calls[2].start > 0
  /\ BindsOfMatch(p, res.needle, run.calls[2])

(* C29: when every pattern word of a parsed template is bound to a valid   *)
(* expression the regexp of the pattern compiles, whatever characters the  *)
(* parser admitted in the names, so that Match returns binds or            *)
(* ErrNoMatch and never a compile error.                                   *)
C29_AdmittedNamesCompile ==
  (res.op = "Match" /\ ~HasBadRule(p)) => res.err \in {ErrNil, ErrNoMatch}

(* C30: for a list that gives each pattern word of the template at least   *)
(* one value, Apply returns what ApplyFunc returns with the BindFunc that  *)
(* gives the n-th value of the name in the list, or its last value when    *)
(* the list has fewer than n.                                              *)
C30_ApplyAgreesWithApplyFunc ==
  (pc = "agreed" /\ \A n \in PartNames(p.parts) : Count(res.vals, n) >= 1) =>
    /\ prev.err = ErrNil
    /\ res.err = ErrNil
    /\ res.out = prev.out

C30_Witness ==
  /\ pc = "agreed"
  /\ res.err = ErrNil
  /\ Len(p.parts) \div 2 = 3
  /\ \E n \in PartNames(p.parts) : Count(PBinds(p), n) = 3 /\ Count(res.vals, n) = 2
  /\ Len(res.vals) = 3
  /\ res.vals[1].Name # res.vals[2].Name
  /\ res.vals[1].Expr # res.vals[3].Expr
  /\ res.out = prev.out


(* What a call returns when no other goroutine runs.                       *)
aloneOut(op, arg) ==
  CASE op = "Match" ->
         [err |-> Match(Fresh(p), arg).err, val |-> Match(Fresh(p), arg).binds]
    [] op = "Search" ->
         [err |-> searchAll(compileRegexp(Fresh(p)), arg).err,
          val |-> searchAll(compileRegexp(Fresh(p)), arg).calls]
    [] op = "Apply" -> [err |-> Apply(Fresh(p), arg).err, val |-> Apply(Fresh(p), arg).out]
    [] OTHER ->
         [err |-> ApplyFuncOf(Fresh(p), arg).err, val |-> ApplyFuncOf(Fresh(p), arg).out]

Returned(c) == pc = "shared" /\ th.of[c].pc = "done"

AsAlone(c) == th.of[c].out = aloneOut(th.of[c].op, th.of[c].arg)

(* C28 as stated: goroutines that call Match, Search, Apply or ApplyFunc   *)
(* on one shared pattern each get the result they would get alone, and     *)
(* once p.re is set no goroutine assigns it.                               *)
C28_SharedCallsAsAlone ==
  /\ [](\A c \in Callers : Returned(c) => AsAlone(c))
  /\ [][(pc = "shared" /\ p.re # NoRe) => th'.written = th.written]_vars

(* C28 amended: Apply and ApplyFunc return what they return alone; so do   *)
(* Match and Search when p.re was set before the goroutines started, and   *)
(* then no goroutine assigns p.re.                                         *)
C28_PrebuiltCallsAsAlone ==
  /\ \A c \in Callers :
       (Returned(c) /\ (th.prebuilt \/ th.of[c].op \in {"Apply", "ApplyFunc"}))
         => AsAlone(c)
  /\ (pc = "shared" /\ th.prebuilt) => (th.written = {} /\ p.re # NoRe)

C28_Witness ==
  /\ pc = "shared" /\ th.prebuilt
  /\ \A c \in Callers : Returned(c)
  /\ \E c, d \in Callers :
       /\ c # d
       /\ th.of[c].op = "Match" /\ th.of[c].out.err = ErrNil /\ Len(th.of[c].out.val) > 0
       /\ th.of[d].op = "Search" /\ Len(th.of[d].out.val) > 0

====
